---- MODULE Spec2Model ----
(***************************************************************************)
(* A model of the core of mini_afl_py: the coverage bitmap, the monitor,   *)
(* the scheduler, the subprocess runner and the main fuzz loop.            *)
(*                                                                         *)
(* Every component's state is one record held in one variable; a method    *)
(* of the code is an operator from the old record (and the call's          *)
(* arguments) to the new record and the return value, and an action        *)
(* applies it.  Each component has a specification of its own (SpecCov,    *)
(* SpecMon, SpecSched, SpecRun, SpecLoop) that leaves the variables of the *)
(* other components at their initial values.                               *)
(***************************************************************************)
EXTENDS Integers, Sequences, FiniteSets, TLC

VARIABLES
    covA,       \* coverage spec: the bitmap `self` of the calls
    covB,       \* coverage spec: the bitmap `other` of the calls
    covCall,    \* coverage spec: the last call, its pre-state and its return value
    monitor,    \* core/monitor.py Monitor
    monCall,    \* monitor spec: the last record_run call (pre-state, arguments)
    sched,      \* core/scheduler.py Scheduler
    schedCall,  \* scheduler spec: the last call (pre-state, arguments, return)
    now,        \* time.time(), in seconds
    run,        \* targets/command_target.py: the locals of one CommandTarget.run call
    fs,         \* the files on disk: path -> bytes
    loop        \* fuzzer.py: the locals of fuzz_loop

vars == <<covA, covB, covCall, monitor, monCall, sched, schedCall, now, run, fs, loop>>

\* Python's None (an optional integer x is held as <<x>>, a path as a tuple of names)
None == <<>>
Some(x) == <<x>>

Min(a, b) == IF a <= b THEN a ELSE b
Max(a, b) == IF a >= b THEN a ELSE b

(***************************************************************************)
(* Bounds of the model.                                                    *)
(***************************************************************************)
\* The bitmap size (65536 in the code), scaled down.
BITMAP_SIZE == 2
\* record_run calls in the monitor specification.
MaxRecords == 3
\* add_seed calls, report_result calls and selections in the scheduler
\* specification; the clock's ticks.
MaxSeeds == 1
MaxReports == 2
MaxSelect == 2
MaxTicks == 1
\* seconds per tick of the clock
TickSeconds == 10

(***************************************************************************)
(* instrumentation/coverage.py: CoverageData                               *)
(***************************************************************************)
\* CoverageData(size): a zeroed bytearray of `size` bytes.
CoverageData(size) == [size |-> size, bitmap |-> [i \in 0 .. size - 1 |-> 0]]

\* Every CoverageData of a size that the class's own methods can build: the
\* bytes are 0 or 1 (add_edge and the merges only ever store 1).
AllCoverage(size) ==
    {[size |-> size, bitmap |-> b] : b \in [0 .. size - 1 -> {0, 1}]}

\* add_edge: bitmap[edge_id % size] = 1.
add_edge(self, edge_id) ==
    [self EXCEPT !.bitmap[edge_id % self.size] = 1]

\* merge written with an assignment instead of the OR.
merge_assign(self, other) ==
    [self EXCEPT !.bitmap =
        [i \in 0 .. self.size - 1 |->
            IF i < Min(self.size, other.size) THEN other.bitmap[i]
            ELSE self.bitmap[i]]]

\* merge: for i in range(min(sizes)): if other.bitmap[i]: self.bitmap[i] = 1.
merge(self, other) ==
    [self EXCEPT !.bitmap =
        [i \in 0 .. self.size - 1 |->
            IF i < Min(self.size, other.size) /\ other.bitmap[i] # 0 THEN 1
            ELSE self.bitmap[i]]]

\* merge_and_count_new that copies the bytes of `other` over its own.
merge_and_count_overwrite(self, other) ==
    LET msize == Min(self.size, other.size)
    IN  [cov |-> merge_assign(self, other),
         new |-> Cardinality({i \in 0 .. msize - 1 :
                                other.bitmap[i] # 0 /\ self.bitmap[i] = 0})]

\* merge_and_count_new that counts every hit byte of `other`.
merge_and_count_all(self, other) ==
    LET msize == Min(self.size, other.size)
    IN  [cov |-> merge(self, other),
         new |-> Cardinality({i \in 0 .. msize - 1 : other.bitmap[i] # 0})]

\* merge_and_count_new: the bytes set by this call are those that are hit in
\* other and not yet in self; returns the new bitmap and their number.
merge_and_count_new(self, other) ==
    LET msize  == Min(self.size, other.size)
        fresh  == {i \in 0 .. msize - 1 :
                      other.bitmap[i] # 0 /\ self.bitmap[i] = 0}
    IN  [cov |-> [self EXCEPT !.bitmap =
                     [i \in 0 .. self.size - 1 |->
                         IF i \in fresh THEN 1 ELSE self.bitmap[i]]],
         new |-> Cardinality(fresh)]

\* __len__: the number of nonzero bytes.
len(self) == Cardinality({i \in 0 .. self.size - 1 : self.bitmap[i] # 0})

\* points: the set of indices of the nonzero bytes.
points(self) == {i \in 0 .. self.size - 1 : self.bitmap[i] # 0}

\* to_bitmap(size): a copy, or the hits folded modulo `size`.
to_bitmap(self, size) ==
    IF size = self.size THEN self.bitmap
    ELSE [j \in 0 .. size - 1 |->
            IF \E i \in 0 .. self.size - 1 : self.bitmap[i] # 0 /\ i % size = j
            THEN 1 ELSE 0]

(***************************************************************************)
(* core/monitor.py: Monitor                                                *)
(***************************************************************************)
\* Only samples with novelty >= novelty_threshold are saved (default 10).
novelty_threshold == 10
\* The growth history keeps the last 1024 samples.
COV_HISTORY_MAX == 1024

\* Monitor.__init__
MonitorInit ==
    [records        |-> <<>>,
     cumulative_cov |-> CoverageData(BITMAP_SIZE),
     cum_cov_size   |-> 0,
     cov_history    |-> <<>>,
     saved          |-> {}]

\* record_run that adds every hit of cov to the cached size, instead of the
\* hits that are new.
record_run_counts_hits(m, ts, sample_id, sample, status, wall_time, cov, artifact_path) ==
    LET mc       == IF cov = None THEN [cov |-> m.cumulative_cov, new |-> 0]
                    ELSE merge_and_count_new(m.cumulative_cov, cov)
        novelty  == mc.new
        cum      == m.cum_cov_size
                      + (IF cov = None THEN 0 ELSE Cardinality(points(cov)))
        hist     == Append(m.cov_history, <<ts, cum>>)
        save     == novelty >= novelty_threshold
        rec      == [timestamp     |-> ts,
                     sample_id     |-> sample_id,
                     status        |-> status,
                     wall_time     |-> wall_time,
                     novelty       |-> novelty,
                     cum_coverage  |-> cum,
                     artifact_path |-> IF save /\ artifact_path = None
                                       THEN <<"monitor_artifacts", "sample_novel.bin">>
                                       ELSE artifact_path]
    IN  [records        |-> Append(m.records, rec),
         cumulative_cov |-> mc.cov,
         cum_cov_size   |-> cum,
         cov_history    |-> IF Len(hist) > COV_HISTORY_MAX THEN Tail(hist) ELSE hist,
         saved          |-> IF save THEN m.saved \cup {sample} ELSE m.saved]

\* record_run(sample_id, sample, status, wall_time, cov, artifact_path) at
\* time ts: merges cov into the cumulative bitmap, appends the history
\* sample and the record, saves the sample when the novelty is high.
record_run(m, ts, sample_id, sample, status, wall_time, cov, artifact_path) ==
    LET mc       == IF cov = None THEN [cov |-> m.cumulative_cov, new |-> 0]
                    ELSE merge_and_count_new(m.cumulative_cov, cov)
        novelty  == mc.new
        cum      == m.cum_cov_size + novelty
        hist     == Append(m.cov_history, <<ts, cum>>)
        save     == novelty >= novelty_threshold
        rec      == [timestamp     |-> ts,
                     sample_id     |-> sample_id,
                     status        |-> status,
                     wall_time     |-> wall_time,
                     novelty       |-> novelty,
                     cum_coverage  |-> cum,
                     artifact_path |-> IF save /\ artifact_path = None
                                       THEN <<"monitor_artifacts", "sample_novel.bin">>
                                       ELSE artifact_path]
    IN  [records        |-> Append(m.records, rec),
         cumulative_cov |-> mc.cov,
         cum_cov_size   |-> cum,
         cov_history    |-> IF Len(hist) > COV_HISTORY_MAX THEN Tail(hist) ELSE hist,
         saved          |-> IF save THEN m.saved \cup {sample} ELSE m.saved]

(***************************************************************************)
(* core/scheduler.py: Candidate, Scheduler                                 *)
(*                                                                         *)
(* Times are integers: time.time() in seconds, wall times and              *)
(* avg_exec_time in microseconds.  Scores are in thousandths.              *)
(***************************************************************************)
\* The selections between two maintenance ticks (200 in the code) and the
\* capacity of the favored set (20 in the code), scaled down.
shuffle_interval == 2
favored_capacity == 1
max_energy_cap == 20
favored_ttl == 30
cov_check_interval == 10
\* explore fractions, in percent
explore_default == 15
explore_stagnant == 30
explore_pool_default == 8
explore_pool_size_stagnant == 32
explore_pool_size_max == 64
\* a favored id is dropped once its candidate's cycles exceed this (8 in the
\* code, line 277), scaled down
FAVORED_MAX_CYCLES == 1

\* `import random` on line 250 of next_candidate makes `random` a local name
\* of the whole function: it is unbound on every earlier line, where a use
\* raises UnboundLocalError (an Exception, swallowed by the enclosing try).
LOCAL_IMPORT_RANDOM_LINE == 250
\* `random` as the module-level import alone would leave it: bound on every line
random_is_bound_everywhere(line) == line > 0
random_is_bound(line) == line > LOCAL_IMPORT_RANDOM_LINE

\* Candidate(id, data, energy, cycles=0, cov_sig=None)
Candidate(cid, data, energy) ==
    [id |-> cid, data |-> data, energy |-> energy, cycles |-> 0,
     avg_exec_time |-> 0, hits |-> 0, last_novelty |-> 0, cov_sig |-> None]

\* Scheduler.__init__ at time t
SchedulerInit(t) ==
    [next_id           |-> 1,
     corpus            |-> <<>>,
     queue             |-> <<>>,
     favored           |-> <<>>,
     select_count      |-> 0,
     explore_fraction  |-> explore_default,
     explore_pool_size |-> explore_pool_default,
     last_cov_check    |-> t,
     last_cov_points   |-> 0,
     cumulative_cov    |-> CoverageData(BITMAP_SIZE)]

\* The corpus is a dict keyed by the ids 1 .. next_id - 1, in insertion order.
CorpusIds(s) == DOMAIN s.corpus
FavoredIds(s) == DOMAIN s.favored

\* dict helpers: d[k] = v, del d[k]
DictSet(d, k, v) == [x \in DOMAIN d \cup {k} |-> IF x = k THEN v ELSE d[x]]
DictDel(d, k) == [x \in DOMAIN d \ {k} |-> d[x]]

\* list.remove(x) followed by append(x)
RECURSIVE SeqWithout(_, _)
SeqWithout(q, x) ==
    IF q = <<>> THEN <<>>
    ELSE IF Head(q) = x THEN Tail(q)
    ELSE <<Head(q)>> \o SeqWithout(Tail(q), x)

InSeq(q, x) == \E k \in 1 .. Len(q) : q[k] = x

\* add_seed that queues the id after the increment of _next_id.
add_seed_queues_next(s, seed, energy) ==
    LET cid == s.next_id
    IN  [s   |-> [s EXCEPT !.next_id = cid + 1,
                           !.corpus  = DictSet(s.corpus, cid, Candidate(cid, seed, energy)),
                           !.queue   = Append(s.queue, cid + 1)],
         ret |-> cid]

\* add_seed: the next id, a fresh candidate in the corpus and at the queue's end.
add_seed(s, seed, energy) ==
    LET cid == s.next_id
    IN  [s   |-> [s EXCEPT !.next_id = cid + 1,
                           !.corpus  = DictSet(s.corpus, cid, Candidate(cid, seed, energy)),
                           !.queue   = Append(s.queue, cid)],
         ret |-> cid]

\* floor(1000 * ln(1 + e)) for e = 1 .. 20 (math.log1p of the energy)
LOG1P_MILLI ==
    <<693, 1098, 1386, 1609, 1791, 1945, 2079, 2197, 2302, 2397,
      2484, 2564, 2639, 2708, 2772, 2833, 2890, 2944, 2995, 3044>>

\* calculate_score in thousandths; jit is random() in percent (0 .. 99).
calculate_score(cand, jit) ==
    LET size    == Len(cand.data)
        base    == 100000
        small   == IF size <= 16 THEN 40000
                   ELSE IF size <= 64 THEN 20000
                   ELSE IF size <= 256 THEN 5000 ELSE 0
        speed   == IF cand.avg_exec_time > 0
                   THEN Max(0, Min(50000, 100000000 \div (cand.avg_exec_time + 1000)))
                   ELSE 0
        penalty == Min(cand.cycles * 1500, 60000)
        hitb    == Min(cand.hits * 2000, 40000)
        nov     == Min(cand.last_novelty * 5000, 200000)
        energy  == Max(1, cand.energy)
        s1      == base + small + speed - penalty + hitb + nov
        s2      == (s1 * (1000 + (LOG1P_MILLI[Min(energy, 20)] * 5) \div 100)) \div 1000
        s3      == s2 + (jit * s2) \div 10000
    IN  IF s3 < 1000 THEN 1000 ELSE s3

\* hashlib.sha1(bytes(bm)).hexdigest(): the digest stands for the bytes it
\* was taken of (no collisions): the bytes read as a base-256 number.
RECURSIVE Sha1Hex(_, _)
Sha1Hex(bm, n) ==
    IF n = 0 THEN 0 ELSE bm[n - 1] + 256 * Sha1Hex(bm, n - 1)

\* cov_sig of a run's coverage: sha1 of cov.to_bitmap()
CovSig(cov) == Some(Sha1Hex(to_bitmap(cov, BITMAP_SIZE), BITMAP_SIZE))

\* sum of the scores of the candidates `ids`
RECURSIVE SumScores(_, _, _)
SumScores(s, ids, jit) ==
    IF ids = {} THEN 0
    ELSE LET i == CHOOSE i \in ids : TRUE
         IN  calculate_score(s.corpus[i], jit) + SumScores(s, ids \ {i}, jit)

\* The ids the cumulative-weight loop (lines 251-258) can return for some
\* r = random.uniform(0, total): the first id (r = 0) and every id whose
\* score is positive.
WeightedChoices(s, ids, jit) ==
    {i \in ids : calculate_score(s.corpus[i], jit) > 0 \/ \A j \in ids : i <= j}

\* ids_sorted[:pool_n] of the explore branch: the pool_n candidates with the
\* fewest cycles (sorted is stable, the corpus is in id order).
ExplorePool(s) ==
    LET ids    == CorpusIds(s)
        before(j, i) == \/ s.corpus[j].cycles < s.corpus[i].cycles
                        \/ s.corpus[j].cycles = s.corpus[i].cycles /\ j < i
        pool_n == Max(1, Min(s.explore_pool_size, Cardinality(ids)))
    IN  {i \in ids : Cardinality({j \in ids : before(j, i)}) < pool_n}

\* if cid in favored: favored[cid] = time.time()
RefreshFavored(s, cid, t) ==
    IF cid \in FavoredIds(s) THEN [s EXCEPT !.favored[cid] = t] ELSE s

\* a selection that appends the id without taking it out of the queue first
SelectCandidate_appends_only(s, cid) ==
    [s EXCEPT !.corpus[cid].cycles = @ + 1,
              !.queue = Append(s.queue, cid)]

\* cand.cycles += 1; the id moves to the queue's end
SelectCandidate(s, cid) ==
    [s EXCEPT !.corpus[cid].cycles = @ + 1,
              !.queue = Append(SeqWithout(s.queue, cid), cid)]

\* Lines 118-157, one try block: shuffle the queue (perm is the shuffled
\* queue), expire favored ids past the TTL, trim the favored set to its
\* capacity keeping the newest, decay every energy.  Its first statement is
\* random.shuffle on line 120.
maintenance(s, t, perm) ==
    IF ~random_is_bound(120) THEN s
    ELSE
    LET live  == {f \in FavoredIds(s) : ~(t - s.favored[f] > favored_ttl)}
        keep  == IF Cardinality(live) > favored_capacity
                 THEN CHOOSE k \in SUBSET live :
                        /\ Cardinality(k) = favored_capacity
                        /\ \A a \in k, b \in live \ k : s.favored[a] >= s.favored[b]
                 ELSE live
        decay(c) ==
            LET factor == IF c.last_novelty # 0 THEN 95 ELSE 80
            IN  [c EXCEPT !.energy =
                    Min(Max(1, (c.energy * factor) \div 100), max_energy_cap)]
    IN  [s EXCEPT !.queue   = perm,
                  !.favored = [f \in keep |-> s.favored[f]],
                  !.corpus  = [i \in CorpusIds(s) |-> decay(s.corpus[i])]]

\* Lines 175-197: every cov_check_interval seconds, growth of the cumulative
\* coverage <= 1% switches to the stagnant explore parameters, more growth
\* restores the default fraction and halves the pool (at least 8).
stagnation_check(s, t) ==
    IF t - s.last_cov_check >= cov_check_interval
    THEN LET cur_points  == Cardinality(points(s.cumulative_cov))
             prev_points == Max(1, s.last_cov_points)
             stagnant    == (cur_points - s.last_cov_points) * 100 <= prev_points
         IN  [s EXCEPT
                !.explore_fraction  = IF stagnant THEN explore_stagnant
                                      ELSE explore_default,
                !.explore_pool_size =
                    IF stagnant
                    THEN Min(explore_pool_size_stagnant, explore_pool_size_max)
                    ELSE Max(8, s.explore_pool_size \div 2),
                !.last_cov_points   = cur_points,
                !.last_cov_check    = t]
    ELSE s

\* next_candidate at time t.  rnd holds the random draws of the call:
\*   perm     the queue as random.shuffle leaves it
\*   explore  random.random() < explore_fraction          (line 201)
\*   favored  random.random() < 0.65                      (line 231)
\*   pick     the id drawn by random.choice / the weighted loop
\*   jit      random() of calculate_score's jitter, in percent
\* Returns the new scheduler and the returned candidate's id (or None).
RECURSIVE next_candidate(_, _, _)
next_candidate(s, t, rnd) ==
    IF s.queue = <<>> THEN [s |-> s, ret |-> None]
    ELSE
    LET s1 == [s EXCEPT !.select_count = @ + 1]
        s2 == IF s1.select_count % shuffle_interval = 0
              THEN maintenance(s1, t, rnd.perm) ELSE s1
        \* lines 160-172 and 240-246: pop the queue's head
        cid  == Head(s2.queue)
        popd == [s2 EXCEPT !.queue = Tail(s2.queue)]
        round_robin(refresh) ==
            IF cid \notin CorpusIds(s2) THEN next_candidate(popd, t, rnd)
            ELSE LET s3 == SelectCandidate(s2, cid)
                 IN  [s   |-> IF refresh THEN RefreshFavored(s3, cid, t) ELSE s3,
                      ret |-> Some(cid)]
    IN  IF Cardinality(CorpusIds(s2)) <= 2 THEN round_robin(TRUE)
        ELSE
        LET s3 == stagnation_check(s2, t)
            \* lines 200-223, one try block starting with random.random()
            explore == random_is_bound(201) /\ rnd.explore
            \* lines 226-234
            ids0 == CorpusIds(s3)
            favored_ids == {i \in ids0 : i \in FavoredIds(s3)}
            ids  == IF favored_ids # {} /\ random_is_bound(231) /\ rnd.favored
                    THEN favored_ids ELSE ids0
            total == SumScores(s3, ids, rnd.jit)
            chosen == rnd.pick
            s4 == RefreshFavored(SelectCandidate(s3, chosen), chosen, t)
            s5 == IF chosen \in FavoredIds(s4)
                     /\ s4.corpus[chosen].cycles > FAVORED_MAX_CYCLES
                  THEN [s4 EXCEPT !.favored = DictDel(s4.favored, chosen)]
                  ELSE s4
        IN  IF explore
            THEN [s |-> s4, ret |-> Some(chosen)]
            ELSE IF total <= 0
            THEN LET r == round_robin(FALSE)
                 IN  [s   |-> [r.s EXCEPT !.explore_fraction  = s3.explore_fraction,
                                          !.explore_pool_size = s3.explore_pool_size,
                                          !.last_cov_points   = s3.last_cov_points,
                                          !.last_cov_check    = s3.last_cov_check],
                      ret |-> r.ret]
            ELSE [s |-> s5, ret |-> Some(chosen)]

\* The draws `pick` that next_candidate can make in state s at time t.
Picks(s, t, rnd) ==
    IF s.queue = <<>> \/ Cardinality(CorpusIds(s)) <= 2 THEN {0}
    ELSE LET s3 == stagnation_check(s, t)
             fav == {i \in CorpusIds(s3) : i \in FavoredIds(s3)}
         IN  IF random_is_bound(201) /\ rnd.explore THEN ExplorePool(s3)
             ELSE WeightedChoices(s3,
                    IF fav # {} /\ random_is_bound(231) /\ rnd.favored
                    THEN fav ELSE CorpusIds(s3), rnd.jit)

Statuses == {"ok", "crash", "hang", "error"}

\* A run result as report_result and record_run read it (CommandTargetResult).
Result(status, wall_time, coverage, artifact_path) ==
    [status |-> status, wall_time |-> wall_time, coverage |-> coverage,
     artifact_path |-> artifact_path]

\* Lines 322-329: a duplicate only when both signatures are set and equal.
is_same(cov_sig, cand) ==
    cov_sig # None /\ cand.cov_sig # None /\ cov_sig = cand.cov_sig

\* update_duplicate without the cap of line 371 on the recomputed energy.
update_duplicate_uncapped(s, t, cid, result, novelty, jit) ==
    LET cand == s.corpus[cid]
        wt   == result.wall_time
        c1   == [cand EXCEPT
                   !.avg_exec_time = IF cand.avg_exec_time <= 0 THEN wt
                                     ELSE (3 * wt + 7 * cand.avg_exec_time) \div 10,
                   !.hits = @ + 1]
        c2   == IF novelty > 0
                THEN [c1 EXCEPT !.energy = Min(max_energy_cap, c1.energy + 2 + novelty),
                                !.last_novelty = novelty]
                ELSE c1
        c3   == IF result.status \in {"crash", "hang"}
                THEN [c2 EXCEPT !.energy = Max(1, Min(c2.energy, 3))]
                ELSE [c2 EXCEPT !.energy = Max(1, calculate_score(c2, jit) \div 1000)]
    IN  [s EXCEPT !.corpus[cid] = c3,
                  !.favored = IF novelty > 0 THEN DictSet(s.favored, cid, t)
                              ELSE s.favored]
\* Lines 331-374: the statistics of the matched candidate cid.
update_duplicate(s, t, cid, result, novelty, jit) ==
    LET cand == s.corpus[cid]
        wt   == result.wall_time
        c1   == [cand EXCEPT
                   !.avg_exec_time = IF cand.avg_exec_time <= 0 THEN wt
                                     ELSE (3 * wt + 7 * cand.avg_exec_time) \div 10,
                   !.hits = @ + 1]
        c2   == IF novelty > 0
                THEN [c1 EXCEPT !.energy = Min(max_energy_cap, c1.energy + 2 + novelty),
                                !.last_novelty = novelty]
                ELSE c1
        c3   == IF result.status \in {"crash", "hang"}
                THEN [c2 EXCEPT !.energy = Max(1, Min(c2.energy, 3))]
                ELSE [c2 EXCEPT !.energy =
                        Min(max_energy_cap, Max(1, calculate_score(c2, jit) \div 1000))]
    IN  [s EXCEPT !.corpus[cid] = c3,
                  !.favored = IF novelty > 0 THEN DictSet(s.favored, cid, t)
                              ELSE s.favored]

\* Lines 298-317: the run's novelty and signature; its coverage is merged
\* into the scheduler's cumulative bitmap.
observe_coverage(s, result) ==
    LET cov     == result.coverage
        \* `if cov and isinstance(cov, CoverageData)`: CoverageData defines
        \* __len__, so a bitmap without a hit is falsy.
        has_cov == cov # None /\ len(cov) > 0
    IN  [s       |-> IF has_cov
                     THEN [s EXCEPT !.cumulative_cov = merge(s.cumulative_cov, cov)]
                     ELSE s,
         novelty |-> IF has_cov
                     THEN Cardinality(points(cov) \ points(s.cumulative_cov))
                     ELSE 0,
         cov_sig |-> IF has_cov THEN CovSig(cov) ELSE None]

\* Lines 321-330: the corpus candidates the loop would match, in id order.
duplicates(s, cov_sig) == {cid \in CorpusIds(s) : is_same(cov_sig, s.corpus[cid])}

\* admit without the crash/hang test of lines 378-379.
admit_any_status(s, t, sample, status, novelty, cov_sig, lucky) ==
    IF novelty > 0
    THEN LET a == add_seed(s, sample, Min(max_energy_cap, Max(6, 1 + novelty * 3)))
         IN  [s   |-> [a.s EXCEPT !.corpus[a.ret].cov_sig = cov_sig,
                                  !.corpus[a.ret].last_novelty = novelty,
                                  !.favored = DictSet(a.s.favored, a.ret, t)],
              ret |-> Some(a.ret)]
    ELSE IF lucky
    THEN LET a == add_seed(s, sample, 1)
         IN  [s |-> a.s, ret |-> Some(a.ret)]
    ELSE [s |-> s, ret |-> None]

\* Lines 376-404: a sample that matched no candidate.  Crash and hang samples
\* are dropped; a novel one joins the corpus with its signature and is
\* favored; any other joins with probability 0.01 (`lucky`).
admit_sample(s, t, sample, status, novelty, cov_sig, lucky) ==
    IF status \in {"crash", "hang"} THEN [s |-> s, ret |-> None]
    ELSE IF novelty > 0
    THEN LET a == add_seed(s, sample, Min(max_energy_cap, Max(6, 1 + novelty * 3)))
         IN  [s   |-> [a.s EXCEPT !.corpus[a.ret].cov_sig = cov_sig,
                                  !.corpus[a.ret].last_novelty = novelty,
                                  !.favored = DictSet(a.s.favored, a.ret, t)],
              ret |-> Some(a.ret)]
    ELSE IF lucky
    THEN LET a == add_seed(s, sample, 1)
         IN  [s |-> a.s, ret |-> Some(a.ret)]
    ELSE [s |-> s, ret |-> None]

\* report_result as its docstring still describes it: a crash or hang sample
\* is kept in the corpus, with its signature, before the duplicate loop.
report_result_keeps_crashes(s, t, sample, result, rnd) ==
    LET o    == observe_coverage(s, result)
        dups == duplicates(o.s, o.cov_sig)
    IN  IF result.status \in {"crash", "hang"}
        THEN LET a == add_seed(o.s, sample, max_energy_cap)
             IN  [s   |-> [a.s EXCEPT !.corpus[a.ret].cov_sig = o.cov_sig],
                  ret |-> Some(a.ret)]
        ELSE IF dups # {}
        THEN LET cid == CHOOSE c \in dups : \A d \in dups : c <= d
             IN  [s   |-> update_duplicate(o.s, t, cid, result, o.novelty, rnd.jit),
                  ret |-> Some(cid)]
        ELSE admit_sample(o.s, t, sample, result.status, o.novelty, o.cov_sig, rnd.admit)

\* report_result without the `return cid` of line 374: after the update of
\* the matched candidate the sample goes on to the admission.
report_result_no_return(s, t, sample, result, rnd) ==
    LET o    == observe_coverage(s, result)
        dups == duplicates(o.s, o.cov_sig)
        s2   == IF dups # {}
                THEN update_duplicate(o.s, t, CHOOSE c \in dups : \A d \in dups : c <= d,
                                      result, o.novelty, rnd.jit)
                ELSE o.s
    IN  admit_sample(s2, t, sample, result.status, o.novelty, o.cov_sig, rnd.admit)

\* report_result(sample, result) at time t; rnd.admit is random.random() <
\* 0.01 (line 401), rnd.jit the jitter of calculate_score.  Returns the new
\* scheduler and the id returned (or None).
report_result(s, t, sample, result, rnd) ==
    LET o    == observe_coverage(s, result)
        dups == duplicates(o.s, o.cov_sig)
    IN  IF dups # {}
        THEN LET cid == CHOOSE c \in dups : \A d \in dups : c <= d
             IN  [s   |-> update_duplicate(o.s, t, cid, result, o.novelty, rnd.jit),
                  ret |-> Some(cid)]
        ELSE admit_sample(o.s, t, sample, result.status, o.novelty, o.cov_sig, rnd.admit)

(***************************************************************************)
(* The inputs of the calls.                                                *)
(***************************************************************************)
\* input bytes
Samples == {<<88>>, <<89, 89>>}
\* wall times in microseconds
WallTimes == {0, 1000}
\* random() of the score's jitter, in percent
JitterPercents == {0, 99}
\* what a run's result can carry as coverage
Coverages == {None} \cup AllCoverage(BITMAP_SIZE)

RECURSIVE Perms(_)
Perms(q) ==
    IF q = <<>> THEN {<<>>}
    ELSE UNION {{<<q[k]>> \o p : p \in Perms(SeqWithout(q, q[k]))} : k \in 1 .. Len(q)}

\* The last call of the scheduler specification: the method, whether the
\* reported status was crash or hang, whether the reported coverage had the
\* signature of a corpus candidate, whether it was novel, the value returned,
\* whether the queue was empty at the call, and the report_result calls so far.
SchedCallInit ==
    [op |-> "init", crash |-> FALSE, matched |-> FALSE, novel |-> FALSE,
     ret |-> None, queue_empty |-> TRUE, reports |-> 0]

\* A result whose coverage has a signature (a bitmap with a hit), equal to
\* the signature of a candidate of the corpus.
SigMatches(s, cov) ==
    /\ cov # None
    /\ points(cov) # {}
    /\ \E cid \in CorpusIds(s) : s.corpus[cid].cov_sig = CovSig(cov)

\* A result whose coverage hits an index the cumulative bitmap has not.
IsNovel(s, cov) ==
    /\ cov # None
    /\ points(cov) \ points(s.cumulative_cov) # {}

(***************************************************************************)
(* The initial values of the components a specification leaves alone.      *)
(***************************************************************************)
CovIdle ==
    /\ covA = CoverageData(BITMAP_SIZE)
    /\ covB = CoverageData(BITMAP_SIZE)
    /\ covCall = [op |-> "init", pre |-> CoverageData(BITMAP_SIZE), ret |-> 0]
MonIdle ==
    /\ monitor = MonitorInit
    /\ monCall = [op |-> "init", cov |-> None]
SchedIdle ==
    /\ sched = SchedulerInit(0)
    /\ schedCall = SchedCallInit
RunIdle ==
    /\ run = [pc |-> "idle"]
    /\ fs = <<>>
LoopIdle == loop = [pc |-> "idle"]

(***************************************************************************)
(* SpecCov: the methods of CoverageData on every pair of bitmaps.          *)
(***************************************************************************)
CovSizes == {BITMAP_SIZE - 1, BITMAP_SIZE}
CovInputs == UNION {AllCoverage(n) : n \in CovSizes}

InitCov ==
    /\ covA \in CovInputs
    /\ covB \in CovInputs
    /\ covCall = [op |-> "init", pre |-> covA, ret |-> 0]
    /\ MonIdle /\ SchedIdle /\ RunIdle /\ LoopIdle /\ now = 0

covOther == <<monitor, monCall, sched, schedCall, now, run, fs, loop>>

\* A.add_edge(e)
CovAddEdge ==
    \E e \in 0 .. BITMAP_SIZE + 1 :
        /\ covA' = add_edge(covA, e)
        /\ covCall' = [op |-> "add_edge", pre |-> covA, ret |-> e]
        /\ UNCHANGED <<covB, covOther>>

\* A.merge(B)
CovMerge ==
    /\ covA' = merge(covA, covB)
    /\ covCall' = [op |-> "merge", pre |-> covA, ret |-> 0]
    /\ UNCHANGED <<covB, covOther>>

\* B.merge(A)
CovMergeRev ==
    /\ covB' = merge(covB, covA)
    /\ covCall' = [op |-> "merge_rev", pre |-> covB, ret |-> 0]
    /\ UNCHANGED <<covA, covOther>>

\* A.merge(A)
CovMergeSelf ==
    /\ covA' = merge(covA, covA)
    /\ covCall' = [op |-> "merge_self", pre |-> covA, ret |-> 0]
    /\ UNCHANGED <<covB, covOther>>

\* A.merge(CoverageData(A.size))
CovMergeEmpty ==
    /\ covA' = merge(covA, CoverageData(covA.size))
    /\ covCall' = [op |-> "merge_empty", pre |-> covA, ret |-> 0]
    /\ UNCHANGED <<covB, covOther>>

\* A.merge_and_count_new(B)
CovMergeAndCountNew ==
    LET r == merge_and_count_new(covA, covB)
    IN  /\ covA' = r.cov
        /\ covCall' = [op |-> "merge_and_count_new", pre |-> covA, ret |-> r.new]
        /\ UNCHANGED <<covB, covOther>>

NextCov ==
    \/ CovAddEdge
    \/ CovMerge
    \/ CovMergeRev
    \/ CovMergeSelf
    \/ CovMergeEmpty
    \/ CovMergeAndCountNew

SpecCov == InitCov /\ [][NextCov]_vars

(***************************************************************************)
(* SpecMon: any sequence of Monitor.record_run calls.                      *)
(***************************************************************************)
InitMon ==
    /\ monitor = MonitorInit
    /\ monCall = [op |-> "init", cov |-> None]
    /\ CovIdle /\ SchedIdle /\ RunIdle /\ LoopIdle /\ now = 0

MonRecordRun ==
    \E cov \in Coverages, status \in {"ok", "crash"} :
        /\ Len(monitor.records) < MaxRecords
        /\ monitor' = record_run(monitor, now, Some(1), <<88>>, status, 1000, cov, None)
        /\ monCall' = [op |-> "record_run", cov |-> cov]
        /\ UNCHANGED <<covA, covB, covCall, sched, schedCall, now, run, fs, loop>>

NextMon == MonRecordRun

SpecMon == InitMon /\ [][NextMon]_vars

(***************************************************************************)
(* SpecSched: any sequence of add_seed, next_candidate and report_result   *)
(* calls, with the clock advancing between them.                           *)
(***************************************************************************)
InitSched ==
    /\ sched = SchedulerInit(0)
    /\ schedCall = SchedCallInit
    /\ now = 0
    /\ CovIdle /\ MonIdle /\ RunIdle /\ LoopIdle

schedOther == <<covA, covB, covCall, monitor, monCall, run, fs, loop>>

SchedAddSeed ==
    \E seed \in Samples :
        /\ sched.next_id <= MaxSeeds
        /\ sched' = add_seed(sched, seed, 1).s
        /\ schedCall' = [schedCall EXCEPT !.op = "add_seed", !.crash = FALSE,
                            !.matched = FALSE, !.novel = FALSE,
                            !.ret = Some(sched.next_id)]
        /\ UNCHANGED <<now, schedOther>>

SchedNextCandidate ==
    /\ sched.select_count < MaxSelect
    /\ \E explore \in (IF random_is_bound(201) THEN BOOLEAN ELSE {FALSE}),
          favored \in (IF random_is_bound(231) THEN BOOLEAN ELSE {FALSE}),
          jit \in (IF Cardinality(CorpusIds(sched)) > 2 THEN JitterPercents ELSE {0}),
          perm \in (IF random_is_bound(120)
                       /\ (sched.select_count + 1) % shuffle_interval = 0
                    THEN Perms(sched.queue) ELSE {sched.queue}) :
        LET rnd0 == [perm |-> perm, explore |-> explore, favored |-> favored,
                     jit |-> jit, pick |-> 0]
        IN  \E pick \in Picks(sched, now, rnd0) :
                \E r \in {next_candidate(sched, now, [rnd0 EXCEPT !.pick = pick])} :
                    /\ sched' = r.s
                    /\ schedCall' = [schedCall EXCEPT
                                        !.op = "next_candidate", !.crash = FALSE,
                                        !.matched = FALSE, !.novel = FALSE,
                                        !.ret = r.ret,
                                        !.queue_empty = (sched.queue = <<>>)]
    /\ UNCHANGED <<now, schedOther>>

\* The random draws report_result makes for this result: the jitter when
\* line 370 scores the matched candidate, random.random() when line 401 is
\* reached.
ReportDraws(s, result) ==
    LET o       == observe_coverage(s, result)
        matched == duplicates(o.s, o.cov_sig) # {}
        crash   == result.status \in {"crash", "hang"}
    IN  [admit : IF ~matched /\ ~crash /\ o.novelty = 0 THEN BOOLEAN ELSE {FALSE},
         jit   : IF matched /\ ~crash THEN JitterPercents ELSE {0}]

SchedReportResult ==
    \E sample \in Samples, status \in Statuses, wt \in WallTimes, cov \in Coverages :
        \E rnd \in ReportDraws(sched, Result(status, wt, cov, None)) :
            \E r \in {report_result(sched, now, sample, Result(status, wt, cov, None), rnd)} :
                /\ schedCall.reports < MaxReports
                /\ sched' = r.s
                /\ schedCall' = [schedCall EXCEPT
                                    !.op = "report_result",
                                    !.crash = (status \in {"crash", "hang"}),
                                    !.matched = SigMatches(sched, cov),
                                    !.novel = IsNovel(sched, cov),
                                    !.ret = r.ret,
                                    !.reports = @ + 1]
                /\ UNCHANGED <<now, schedOther>>

SchedTick ==
    /\ now < MaxTicks * TickSeconds
    /\ now' = now + TickSeconds
    /\ UNCHANGED <<sched, schedCall, schedOther>>

NextSched ==
    \/ SchedAddSeed
    \/ SchedNextCandidate
    \/ SchedReportResult
    \/ SchedTick

SpecSched == InitSched /\ [][NextSched]_vars

(***************************************************************************)
(* The claims.                                                             *)
(***************************************************************************)

\* C1: over any sequence of record_run calls, with or without coverage, the
\* number of hit bytes of Monitor.cumulative_cov never decreases, the cached
\* size never decreases, and the cum_coverage values of successive records
\* are non-decreasing.
C1_CumulativeMonotonic ==
    [][/\ len(monitor'.cumulative_cov) >= len(monitor.cumulative_cov)
       /\ monitor'.cum_cov_size >= monitor.cum_cov_size
       /\ \A k \in 1 .. Len(monitor'.records) - 1 :
            monitor'.records[k + 1].cum_coverage >= monitor'.records[k].cum_coverage]_vars

\* C1 witness: three runs, the first and the third with new coverage, the
\* second (without coverage, or with none new) adding nothing.
C1_Witness ==
    /\ Len(monitor.records) >= 3
    /\ monitor.records[1].novelty > 0
    /\ monitor.records[2].novelty = 0
    /\ monitor.records[3].novelty > 0
    /\ monCall.cov # None

\* C2: for bitmaps A and B of one size, A.merge_and_count_new(B) returns the
\* number of indices zero in A and nonzero in B before the call, the hit
\* count of A grows by exactly that number, and A ends with the hit set
\* A.merge(B) gives.
C2_MergeAndCountNew ==
    (covCall.op = "merge_and_count_new" /\ covCall.pre.size = covB.size) =>
        /\ covCall.ret = Cardinality({i \in 0 .. covB.size - 1 :
                            covCall.pre.bitmap[i] = 0 /\ covB.bitmap[i] # 0})
        /\ len(covA) = len(covCall.pre) + covCall.ret
        /\ points(covA) = points(merge(covCall.pre, covB))
        /\ points(covA) = points(covCall.pre) \cup points(covB)

\* C2 witness: a call on bitmaps of one size where B brings both a new hit
\* and one A already had.
C2_Witness ==
    /\ covCall.op = "merge_and_count_new"
    /\ covCall.pre.size = covB.size
    /\ covCall.ret > 0
    /\ points(covCall.pre) \cap points(covB) # {}

\* C3: merge is an OR over the hit bytes: merging an empty bitmap or the
\* bitmap itself leaves the hit set unchanged, merging B a second time
\* changes nothing, A.merge(B) and B.merge(A) give one hit set for equal
\* sizes, and no method changes the size of a bitmap.
C3_MergeAlgebra ==
    LET post == IF covCall.op = "merge_rev" THEN covB ELSE covA
        arg  == IF covCall.op = "merge_rev" THEN covA ELSE covB
    IN  /\ post.size = covCall.pre.size
        /\ DOMAIN post.bitmap = 0 .. covCall.pre.size - 1
        /\ covCall.op \in {"merge_empty", "merge_self"} =>
                points(post) = points(covCall.pre)
        /\ covCall.op \in {"merge", "merge_rev"} =>
                /\ points(merge(post, arg)) = points(post)
                /\ covCall.pre.size = arg.size =>
                      /\ points(post) = points(covCall.pre) \cup points(arg)
                      /\ points(post) = points(merge(arg, covCall.pre))

\* C3 witness: a merge of two bitmaps of one size, each with a hit the other
\* lacks.
C3_Witness ==
    /\ covCall.op = "merge"
    /\ covCall.pre.size = covB.size
    /\ points(covCall.pre) \ points(covB) # {}
    /\ points(covB) \ points(covCall.pre) # {}

\* C4: no two corpus candidates that both have a coverage signature share it.
C4_UniqueSignatures ==
    \A i, j \in CorpusIds(sched) :
        (i # j /\ sched.corpus[i].cov_sig # None /\ sched.corpus[j].cov_sig # None)
            => sched.corpus[i].cov_sig # sched.corpus[j].cov_sig

\* C4 witness: the corpus holds two candidates with signatures, the second
\* admitted by the last report.
C4_Witness ==
    /\ schedCall.op = "report_result"
    /\ \E i, j \in CorpusIds(sched) :
        /\ i # j
        /\ sched.corpus[i].cov_sig # None
        /\ sched.corpus[j].cov_sig # None
        /\ schedCall.ret = Some(j)

\* C5: a candidate returned by next_candidate has an id that is a key of the
\* corpus, and the call returns None only when the queue is empty.
C5_ReturnedInCorpus ==
    schedCall.op = "next_candidate" =>
        /\ schedCall.ret # None => schedCall.ret[1] \in CorpusIds(sched)
        /\ schedCall.ret = None => schedCall.queue_empty

\* C5 witness: a selection from a corpus of more than two candidates (the
\* weighted path) that returned a candidate other than the queue's head.
C5_Witness ==
    /\ schedCall.op = "next_candidate"
    /\ Cardinality(CorpusIds(sched)) > 2
    /\ schedCall.ret # None
    /\ schedCall.ret[1] > 1

C7_DuplicateUpdatesOne ==
    [][(schedCall'.reports = schedCall.reports + 1 /\ schedCall'.matched) =>
          /\ CorpusIds(sched') = CorpusIds(sched)
          /\ sched'.queue = sched.queue
          /\ \E cid \in CorpusIds(sched) :
                /\ schedCall'.ret = Some(cid)
                /\ sched'.corpus[cid].hits = sched.corpus[cid].hits + 1
                /\ sched'.corpus[cid] =
                      [sched.corpus[cid] EXCEPT
                          !.avg_exec_time = sched'.corpus[cid].avg_exec_time,
                          !.hits = sched'.corpus[cid].hits,
                          !.energy = sched'.corpus[cid].energy,
                          !.last_novelty = sched'.corpus[cid].last_novelty]
                /\ \A other \in CorpusIds(sched) \ {cid} :
                      sched'.corpus[other] = sched.corpus[other]
                /\ \A f \in (FavoredIds(sched') \cup FavoredIds(sched)) \ {cid} :
                      /\ f \in FavoredIds(sched') /\ f \in FavoredIds(sched)
                      /\ sched'.favored[f] = sched.favored[f]]_vars

\* C7 witness: a duplicate was reported while the corpus held another
\* candidate, and the matched candidate's hits and avg_exec_time are set.
C7_Witness ==
    /\ schedCall.op = "report_result"
    /\ schedCall.matched
    /\ Cardinality(CorpusIds(sched)) >= 2
    /\ \E cid \in CorpusIds(sched) :
        /\ schedCall.ret = Some(cid)
        /\ sched.corpus[cid].hits >= 1
        /\ sched.corpus[cid].avg_exec_time > 0

(***************************************************************************)
(* The files on disk.  A path is a tuple of names; a file's content is a   *)
(* sequence of bytes.                                                      *)
(***************************************************************************)
Exists(fsys, path) == path \in DOMAIN fsys

\* open(path, "wb").write(data)
WriteFile(fsys, path, data) ==
    [p \in DOMAIN fsys \cup {path} |-> IF p = path THEN data ELSE fsys[p]]

IsUnder(dir, path) ==
    /\ Len(path) > Len(dir)
    /\ SubSeq(path, 1, Len(dir)) = dir

\* TemporaryDirectory.cleanup(): the directory and everything below it
RemoveTree(fsys, dir) ==
    [p \in {q \in DOMAIN fsys : ~IsUnder(dir, q)} |-> fsys[p]]

\* the names mkstemp(prefix="input_") makes, one per call
InputNames ==
    <<"input_0", "input_1", "input_2", "input_3", "input_4", "input_5",
      "input_6", "input_7">>

\* f"crash_input_{int(time.time()*1000)}.bin", by the clock's millisecond
ArtifactNames ==
    <<"crash_input_0.bin", "crash_input_1.bin", "crash_input_2.bin",
      "crash_input_3.bin", "crash_input_4.bin">>

\* the directory tempfile.TemporaryDirectory(prefix="miniafl_run_") makes
TmpDir == <<"miniafl_run_">>
\* a working directory the caller gives
CallerDir == <<"workdir">>

(***************************************************************************)
(* instrumentation/coverage.py: parse_afl_map                              *)
(***************************************************************************)
\* The bytes a child leaves in the bitmap: no hit, a hit counted once, and
\* the hit counts that are the characters " " and "1".
ByteVals == {0, 1, 32, 49}

\* str.split() separators, after line 103 turned "," into " "
IsSpace(b) == b \in {9, 10, 11, 12, 13, 28, 29, 30, 31, 32, 44}
IsDigit(b) == b >= 48 /\ b <= 57

\* line.replace(",", " ").split(): the maximal runs of non-separators
RECURSIVE Tokens(_, _)
Tokens(data, cur) ==
    IF data = <<>> THEN (IF cur = <<>> THEN <<>> ELSE <<cur>>)
    ELSE IF IsSpace(Head(data))
         THEN (IF cur = <<>> THEN <<>> ELSE <<cur>>) \o Tokens(Tail(data), <<>>)
         ELSE Tokens(Tail(data), Append(cur, Head(data)))

RECURSIVE DecimalValue(_, _)
DecimalValue(tok, acc) ==
    IF tok = <<>> THEN acc
    ELSE DecimalValue(Tail(tok), 10 * acc + (Head(tok) - 48))

\* int(tok, 0) of a token of digits and other bytes: a decimal literal
\* (no leading zero unless it is all zeros) has a value, anything else
\* containing a non-digit raises ValueError (None).
IntLiteral(tok) ==
    IF /\ \A k \in 1 .. Len(tok) : IsDigit(tok[k])
       /\ (tok[1] # 48 \/ \A k \in 1 .. Len(tok) : tok[k] = 48)
    THEN Some(DecimalValue(tok, 0))
    ELSE None

RECURSIVE AddEdges(_, _)
AddEdges(cov, toks) ==
    IF toks = <<>> THEN cov
    ELSE AddEdges(IF IntLiteral(Head(toks)) = None THEN cov
                  ELSE add_edge(cov, IntLiteral(Head(toks))[1]),
                  Tail(toks))

\* Lines 118-127: every index of a non-zero byte is an edge.
RECURSIVE ParseBinary(_, _, _)
ParseBinary(cov, data, i) ==
    IF i > Len(data) THEN cov
    ELSE ParseBinary(IF data[i] # 0 THEN add_edge(cov, i - 1) ELSE cov, data, i + 1)

\* parse_afl_map(path): the text reading wins when it finds one integer.
parse_afl_map(fsys, path) ==
    LET cov   == CoverageData(BITMAP_SIZE)
        toks  == Tokens(fsys[path], <<>>)
        found == \E k \in 1 .. Len(toks) : IntLiteral(toks[k]) # None
    IN  IF ~Exists(fsys, path) THEN cov
        ELSE IF found THEN AddEdges(cov, toks)
        ELSE ParseBinary(cov, fsys[path], 1)

(***************************************************************************)
(* instrumentation/shm_manager.py and targets/command_target.py            *)
(***************************************************************************)
\* MAP_SIZE (65536 in the code) is the bitmap size.
MAP_SIZE == BITMAP_SIZE

Modes == {"stdin", "file"}
InstrModes == {"none", "shm_py"}

\* What the environment does to one run: whether shmget succeeds, whether
\* Popen starts the child, whether communicate() times out, whether the
\* child exits within 0.5 s of the first signal, the return code the child
\* leaves, whether shmat succeeds, the bitmap the child left, whether the
\* artifact can be written, the milliseconds the clock advanced and the
\* measured wall time.
ReturnCodes == {0, 1, -11}

\* A command line is a sequence of tokens, a token a tuple of pieces; the
\* piece "@@" stands for the placeholder inside a token.
Cmds == {<< <<"target">> >>, << <<"target">>, <<"--in=", "@@">> >>}

HasPlaceholder(part) == \E k \in 1 .. Len(part) : part[k] = "@@"

\* part.replace("@@", input_path)
RECURSIVE ReplacePlaceholder(_, _)
ReplacePlaceholder(part, input_path) ==
    IF part = <<>> THEN <<>>
    ELSE (IF Head(part) = "@@" THEN input_path ELSE <<Head(part)>>)
         \o ReplacePlaceholder(Tail(part), input_path)

\* Lines 104-112 of command_target.py.
BuildCmd(cmd, mode, input_path) ==
    IF mode = "file" /\ input_path # None
    THEN IF \E i \in 1 .. Len(cmd) : HasPlaceholder(cmd[i])
         THEN [i \in 1 .. Len(cmd) |->
                 IF HasPlaceholder(cmd[i])
                 THEN ReplacePlaceholder(cmd[i], input_path) ELSE cmd[i]]
         ELSE Append(cmd, input_path)
    ELSE cmd

\* The signals of a timed-out run: the first one, and the second one when
\* the child did not exit within 0.5 s (lines 146-166 of command_target.py,
\* 134-147 of shm_manager.py).
TimeoutSignals(timed_out, term_exits, first, second) ==
    IF ~timed_out THEN <<>>
    ELSE IF term_exits THEN <<first>> ELSE <<first, second>>

\* proc.returncode once communicate() has returned
returncode(env) == Some(env.rc)

\* run_target_with_shm(cmd, input_data, mode, timeout, workdir, map_out).
\* raised: the call ended with an exception; created, removed: the regions
\* it made and marked for removal; shmget_calls: the calls of shmget;
\* names: the mkstemp names it used.
run_target_with_shm(fsys, names, cmd, input_data, mode, workdir, map_out, env) ==
    LET input_path == IF mode = "file" /\ input_data # None
                      THEN Append(workdir, InputNames[names + 1]) ELSE None
        names1     == IF input_path # None THEN names + 1 ELSE names
        fs1        == IF input_path # None
                      THEN WriteFile(fsys, input_path, input_data) ELSE fsys
        proc_cmd   == IF mode = "file" /\ input_path # None
                      THEN Append(cmd, input_path) ELSE cmd
        exit_code  == returncode(env)
        fs2        == IF env.read_ok THEN WriteFile(fs1, map_out, env.bitmap) ELSE fs1
        map_path   == IF env.read_ok THEN map_out ELSE None
        failed(f, n, created, argv) ==
            [raised |-> TRUE, fs |-> f, names |-> n, exit_code |-> None,
             timed_out |-> FALSE, map_path |-> None, argv |-> argv,
             signals |-> <<>>, created |-> created, removed |-> 0,
             shmget_calls |-> 1]
    IN  IF ~env.shm_ok THEN failed(fsys, names, 0, <<>>)
        ELSE IF ~env.launch_ok THEN failed(fs1, names1, 1, <<>>)
        ELSE [raised    |-> FALSE,
              fs        |-> fs2,
              names     |-> names1,
              exit_code |-> Some(IF exit_code # None THEN exit_code[1] ELSE -1),
              timed_out |-> env.timed_out,
              map_path  |-> map_path,
              argv      |-> proc_cmd,
              signals   |-> TimeoutSignals(env.timed_out, env.term_exits,
                                           "terminate", "kill"),
              created   |-> 1,
              removed   |-> 1,
              shmget_calls |-> 1]

\* Lines 135-168 of command_target.py: the child run without instrumentation.
run_plain(fsys, names, cmd, env) ==
    IF ~env.launch_ok
    THEN [raised |-> TRUE, fs |-> fsys, names |-> names, exit_code |-> None,
          timed_out |-> FALSE, map_path |-> None, argv |-> <<>>,
          signals |-> <<>>, created |-> 0, removed |-> 0, shmget_calls |-> 0]
    ELSE [raised    |-> FALSE,
          fs        |-> fsys,
          names     |-> names,
          exit_code |-> returncode(env),
          timed_out |-> env.timed_out,
          map_path  |-> None,
          argv      |-> cmd,
          signals   |-> TimeoutSignals(env.timed_out, env.term_exits,
                                       "killpg_TERM", "killpg_KILL"),
          created   |-> 0,
          removed   |-> 0,
          shmget_calls |-> 0]

CommandTargetResult(status, exit_code, timed_out, wall_time, artifact_path, coverage) ==
    [status |-> status, exit_code |-> exit_code, timed_out |-> timed_out,
     wall_time |-> wall_time, artifact_path |-> artifact_path,
     coverage |-> coverage]

\* classification that looks at the exit code before the timeout
classify_exit_code_first(timed_out, exit_code) ==
    IF exit_code = None THEN "error"
    ELSE IF exit_code[1] # 0 THEN "crash"
    ELSE IF timed_out THEN "hang"
    ELSE "ok"

\* Lines 182-191 of command_target.py.
classify(timed_out, exit_code) ==
    IF timed_out THEN "hang"
    ELSE IF exit_code = None THEN "error"
    ELSE IF exit_code[1] # 0 THEN "crash"
    ELSE "ok"

\* CommandTarget(cmd, workdir): workdir None is the default
CommandTarget(cmd, workdir) == [cmd |-> cmd, workdir |-> workdir]

\* CommandTarget.run(input_data, mode) under instrumentation mode
\* instr_mode, on the disk fsys, with `names` mkstemp names used so far and
\* the clock at `clock` milliseconds when the last artifact was named.
CommandTarget_run(fsys, names, clock, self, instr_mode, input_data, mode, env) ==
    LET tmpdir      == self.workdir = None
        run_workdir == IF tmpdir THEN TmpDir ELSE self.workdir
        input_path  == IF mode = "file"
                       THEN Append(run_workdir, InputNames[names + 1]) ELSE None
        names1      == IF mode = "file" THEN names + 1 ELSE names
        fs1         == IF mode = "file"
                       THEN WriteFile(fsys, input_path, input_data) ELSE fsys
        map_out     == Append(run_workdir, "afl_showmap.out")
        cmd         == BuildCmd(self.cmd, mode, input_path)
        ex          == IF instr_mode = "shm_py"
                       THEN run_target_with_shm(fs1, names1, cmd, input_data, mode,
                                                run_workdir, map_out, env)
                       ELSE run_plain(fs1, names1, cmd, env)
        status      == classify(ex.timed_out, ex.exit_code)
        ms          == clock + env.ms
        saved       == status = "crash" /\ env.write_ok
        artifact_path ==
            IF saved THEN run_workdir \o <<"artifacts", ArtifactNames[ms + 1]>>
            ELSE None
        fs2         == IF saved THEN WriteFile(ex.fs, artifact_path, input_data)
                       ELSE ex.fs
        coverage    == IF instr_mode \in {"afl", "shm_py"} /\ Exists(fs2, map_out)
                       THEN parse_afl_map(fs2, map_out) ELSE None
        common      == [names |-> ex.names, run_workdir |-> run_workdir,
                        input_path |-> input_path, argv |-> ex.argv,
                        signals |-> ex.signals, raised |-> ex.raised,
                        created |-> ex.created, removed |-> ex.removed,
                        shmget_calls |-> ex.shmget_calls]
    IN  IF ex.raised
        THEN \* lines 169-176
             [fs     |-> IF tmpdir THEN RemoveTree(ex.fs, TmpDir) ELSE ex.fs,
              clock  |-> clock,
              result |-> CommandTargetResult("error", None, FALSE, env.wall,
                                             None, None),
              info   |-> common]
        ELSE \* lines 178-226
             [fs     |-> IF tmpdir THEN RemoveTree(fs2, TmpDir) ELSE fs2,
              clock  |-> IF status = "crash" /\ env.write_ok THEN ms ELSE clock,
              result |-> CommandTargetResult(status, ex.exit_code, ex.timed_out,
                                             env.wall, artifact_path, coverage),
              info   |-> common]

(***************************************************************************)
(* The environment of a run.                                               *)
(***************************************************************************)
Bitmaps == [1 .. MAP_SIZE -> ByteVals]
ZeroBitmap == [i \in 1 .. MAP_SIZE |-> 0]

Env(shm_ok, launch_ok, timed_out, term_exits, rc, read_ok, bitmap, write_ok, ms, wall) ==
    [shm_ok |-> shm_ok, launch_ok |-> launch_ok, timed_out |-> timed_out,
     term_exits |-> term_exits, rc |-> rc, read_ok |-> read_ok,
     bitmap |-> bitmap, write_ok |-> write_ok, ms |-> ms, wall |-> wall]

\* timed_out, term_exits, rc, write_ok, ms of a child that was started: a
\* child killed by the second signal leaves -9, one that exits on the first
\* leaves -15 or its own code; the artifact write and the clock matter
\* only to a crash.
Outcomes ==
    {<<TRUE, TRUE, rc, TRUE, 0>> : rc \in {0, -15}}
    \cup {<<TRUE, FALSE, -9, TRUE, 0>>}
    \cup {<<FALSE, TRUE, 0, TRUE, 0>>}
    \cup {<<FALSE, TRUE, rc, TRUE, ms>> : rc \in ReturnCodes \ {0}, ms \in {0, 1}}
    \cup {<<FALSE, TRUE, rc, FALSE, 0>> : rc \in ReturnCodes \ {0}}

\* what shmat and the child leave of the bitmap
ShmReads(instr_mode) ==
    IF instr_mode = "shm_py"
    THEN {<<TRUE, b>> : b \in Bitmaps} \cup {<<FALSE, ZeroBitmap>>}
    ELSE {<<TRUE, ZeroBitmap>>}

Envs(instr_mode, walls) ==
    (IF instr_mode = "shm_py"
     THEN {Env(FALSE, TRUE, FALSE, TRUE, 0, TRUE, ZeroBitmap, TRUE, 0, 0)}
     ELSE {})
    \cup {Env(TRUE, FALSE, FALSE, TRUE, 0, TRUE, ZeroBitmap, TRUE, 0, 0)}
    \cup {Env(TRUE, TRUE, o[1], o[2], o[3], r[1], r[2], o[4], o[5], w) :
            o \in Outcomes, r \in ShmReads(instr_mode), w \in walls}

(***************************************************************************)
(* SpecRun: CommandTarget.run, called MaxRuns times on one target.         *)
(***************************************************************************)
MaxRuns == 2

RunCallInit ==
    [input |-> <<>>, mode |-> "stdin", write_ok |-> TRUE, read_ok |-> TRUE,
     launch_ok |-> TRUE, shm_ok |-> TRUE, bitmap |-> ZeroBitmap,
     rc |-> 0, env_timed_out |-> FALSE,
     result |-> CommandTargetResult("ok", None, FALSE, 0, None, None),
     info |-> [names |-> 0, run_workdir |-> <<>>, input_path |-> None,
               argv |-> <<>>, signals |-> <<>>, raised |-> FALSE,
               created |-> 0, removed |-> 0, shmget_calls |-> 0]]

InitRun ==
    /\ \E cmd \in Cmds, workdir \in {None, CallerDir}, instr_mode \in InstrModes :
          run = [pc |-> "ready", self |-> CommandTarget(cmd, workdir),
                 instr_mode |-> instr_mode, runs |-> 0, names |-> 0,
                 clock |-> 0, shm_live |-> 0, call |-> RunCallInit]
    /\ fs = <<>>
    /\ now = 0
    /\ CovIdle /\ MonIdle /\ SchedIdle /\ LoopIdle

runOther == <<covA, covB, covCall, monitor, monCall, sched, schedCall, now, loop>>

TargetRun ==
    /\ run.runs < MaxRuns
    /\ \E input_data \in Samples, mode \in Modes,
          env \in Envs(run.instr_mode, {1000}) :
        \E r \in {CommandTarget_run(fs, run.names, run.clock, run.self,
                                    run.instr_mode, input_data, mode, env)} :
            /\ fs' = r.fs
            /\ run' = [run EXCEPT
                        !.pc = "returned",
                        !.runs = @ + 1,
                        !.names = r.info.names,
                        !.clock = r.clock,
                        !.shm_live = @ + r.info.created - r.info.removed,
                        !.call = [input |-> input_data, mode |-> mode,
                                  write_ok |-> env.write_ok,
                                  read_ok |-> env.read_ok,
                                  launch_ok |-> env.launch_ok,
                                  shm_ok |-> env.shm_ok,
                                  bitmap |-> env.bitmap,
                                  rc |-> env.rc,
                                  env_timed_out |-> env.timed_out,
                                  result |-> r.result, info |-> r.info]]
    /\ UNCHANGED runOther

NextRun == TargetRun

SpecRun == InitRun /\ [][NextRun]_vars

(***************************************************************************)
(* core/monitor.py is_growth_slow and core/aggression.py                   *)
(***************************************************************************)
\* is_growth_slow(window_seconds, min_rate, min_delta) at time t, min_rate
\* in hundredths of an edge per second.
is_growth_slow(m, t, window_seconds, min_rate_percent, min_delta) ==
    IF m.cov_history = <<>> THEN FALSE
    ELSE
    LET h       == m.cov_history
        cutoff  == t - window_seconds
        inside  == {k \in 1 .. Len(h) : h[k][1] >= cutoff}
        first   == IF inside = {} THEN h[1]
                   ELSE h[CHOOSE k \in inside : \A j \in inside : k <= j]
        last    == h[Len(h)]
        delta_cov == last[2] - first[2]
        delta_t   == last[1] - first[1]
        \* rate = delta_cov / max(1e-6, delta_t)
        rate_low  == IF delta_t > 0 THEN 100 * delta_cov < min_rate_percent * delta_t
                     ELSE delta_cov <= 0
    IN  rate_low /\ delta_cov < min_delta

AGGRESSION_SCALE == 2
AGGRESSION_MIN_DURATION == 15
AGGRESSION_COOLDOWN == 60

AggressionManager ==
    [aggressive |-> FALSE, scale |-> 1, last_enter |-> 0, last_exit |-> 0]

\* update that leaves the aggressive state without waiting for min_duration
aggression_update_no_min_duration(a, t, slow_growth) ==
    IF slow_growth /\ ~a.aggressive
    THEN IF t - a.last_exit >= AGGRESSION_COOLDOWN
         THEN [a EXCEPT !.aggressive = TRUE, !.scale = AGGRESSION_SCALE,
                        !.last_enter = t]
         ELSE a
    ELSE IF ~slow_growth /\ a.aggressive
    THEN [a EXCEPT !.aggressive = FALSE, !.scale = 1, !.last_exit = t]
    ELSE a

\* AggressionManager.update(slow_growth) at time t
aggression_update(a, t, slow_growth) ==
    IF slow_growth /\ ~a.aggressive
    THEN IF t - a.last_exit >= AGGRESSION_COOLDOWN
         THEN [a EXCEPT !.aggressive = TRUE, !.scale = AGGRESSION_SCALE,
                        !.last_enter = t]
         ELSE a
    ELSE IF ~slow_growth /\ a.aggressive
    THEN IF t - a.last_enter >= AGGRESSION_MIN_DURATION
         THEN [a EXCEPT !.aggressive = FALSE, !.scale = 1, !.last_exit = t]
         ELSE a
    ELSE a

(***************************************************************************)
(* mutators/havoc_mutator.py and mutators/splice_mutator.py: the           *)
(* parameters the aggression mode scales.  A scale is held in tenths       *)
(* (20 is 2.0), a similarity threshold in hundred-thousandths.             *)
(***************************************************************************)
havoc_rounds == 20
havoc_max_changes == 8
HavocOps ==
    {"flip", "flip_nbits", "xor", "set", "arith", "arith_block", "insert",
     "insert_token", "delete", "repeat_block", "shrink_block", "block_xor",
     "copy_block", "splice"}
DestructiveOps ==
    {"flip", "flip_nbits", "insert", "delete", "splice", "copy_block", "block_xor"}
DefaultOpWeights ==
    [op \in HavocOps |->
        CASE op \in {"flip", "xor"} -> 12
          [] op \in {"set", "arith", "splice"} -> 10
          [] op \in {"flip_nbits", "insert"} -> 8
          [] op = "shrink_block" -> 4
          [] OTHER -> 6]

HavocMutator(rounds, max_changes) ==
    [rounds |-> rounds, max_changes |-> max_changes, op_weights |-> DefaultOpWeights,
     orig |-> [rounds |-> rounds, max_changes |-> max_changes,
               op_weights |-> DefaultOpWeights]]

\* int(v * (1.0 + (s - 1.0) * f)) with s in tenths and f in tenths
ScaledWeight(v, s, f) == Max(1, (v * (100 + (s - 10) * f)) \div 100)

\* apply_aggression that scales the current values instead of the saved ones
havoc_apply_aggression_compounding(h, scale) ==
    LET s == Max(10, scale)
    IN  [h EXCEPT !.rounds = Max(1, (h.rounds * s) \div 10),
                  !.max_changes = Max(1, (h.max_changes * s) \div 10),
                  !.op_weights =
                      [op \in HavocOps |->
                          ScaledWeight(h.op_weights[op], s,
                                       IF op \in DestructiveOps THEN 12 ELSE 6)]]
havoc_apply_aggression(h, scale) ==
    LET s == Max(10, scale)
    IN  [h EXCEPT !.rounds = Max(1, (h.orig.rounds * s) \div 10),
                  !.max_changes = Max(1, (h.orig.max_changes * s) \div 10),
                  !.op_weights =
                      [op \in HavocOps |->
                          ScaledWeight(h.orig.op_weights[op], s,
                                       IF op \in DestructiveOps THEN 12 ELSE 6)]]

havoc_clear_aggression(h) ==
    [h EXCEPT !.rounds = h.orig.rounds,
              !.max_changes = h.orig.max_changes,
              !.op_weights = h.orig.op_weights]

splice_attempts == 8
splice_min_out == 1
splice_max_out == 4096
splice_align == 1
splice_similarity_threshold == 10000
SpliceMutator ==
    LET p == [attempts |-> splice_attempts, min_out |-> splice_min_out,
              max_out |-> splice_max_out, align |-> Max(1, splice_align),
              similarity_threshold |-> splice_similarity_threshold]
    IN  [attempts |-> p.attempts, min_out |-> p.min_out, max_out |-> p.max_out,
         align |-> p.align, similarity_threshold |-> p.similarity_threshold,
         orig |-> p]

splice_apply_aggression(m, scale) ==
    LET s == Max(10, scale)
    IN  [m EXCEPT !.attempts = Max(1, (m.orig.attempts * s) \div 10),
                  !.similarity_threshold =
                      Max(0, (m.orig.similarity_threshold * (1000 - 25 * (s - 10)))
                                 \div 1000),
                  !.max_out = Max(m.orig.max_out, (m.orig.max_out * s) \div 10),
                  !.align = Max(1, m.orig.align)]

splice_clear_aggression(m) ==
    [m EXCEPT !.attempts = m.orig.attempts,
              !.min_out = m.orig.min_out,
              !.max_out = m.orig.max_out,
              !.align = m.orig.align,
              !.similarity_threshold = m.orig.similarity_threshold]

(***************************************************************************)
(* fuzzer.py: fuzz_loop                                                    *)
(***************************************************************************)
loop_cov_check_interval == 10
SLOW_MIN_RATE_PERCENT == 2
SLOW_MIN_DELTA == 2
max_variants == 100
max_attempts == 16

\* The parameters Monitor.record_run declares (monitor.py lines 48-50) and
\* the keywords fuzz_loop passes (fuzzer.py lines 284-290).
RecordRunParams ==
    {"sample_id", "sample", "status", "wall_time", "cov", "artifact_path"}
RecordRunKeywords ==
    {"sample_id", "sample", "status", "wall_time", "cov", "artifact_path", "stderr"}

\* A call with a keyword the function does not declare raises TypeError
\* before the body runs; fuzz_loop swallows it (lines 291-292).
call_record_run(m, keywords, ts, sample_id, sample, res) ==
    IF keywords \subseteq RecordRunParams
    THEN [raised |-> FALSE,
          m |-> record_run(m, ts, sample_id, sample, res.status, res.wall_time,
                           res.coverage, res.artifact_path)]
    ELSE [raised |-> TRUE, m |-> m]

\* Lines 160-199: the periodic growth check.
growth_check(l, m, t) ==
    IF t - l.last_cov_check >= loop_cov_check_interval
    THEN LET slow == is_growth_slow(m, t, loop_cov_check_interval * 3,
                                    SLOW_MIN_RATE_PERCENT, SLOW_MIN_DELTA)
             agg  == aggression_update(l.agg, t, slow)
         IN  [l EXCEPT !.prefer_basic = slow,
                       !.agg = agg,
                       !.prev_aggressive = agg.aggressive,
                       !.havoc =
                            IF agg.aggressive # l.prev_aggressive
                            THEN (IF agg.aggressive
                                  THEN havoc_apply_aggression(@, 10 * agg.scale)
                                  ELSE havoc_clear_aggression(@))
                            ELSE @,
                       !.splice =
                            IF agg.aggressive # l.prev_aggressive
                            THEN (IF agg.aggressive
                                  THEN splice_apply_aggression(@, 10 * agg.scale)
                                  ELSE splice_clear_aggression(@))
                            ELSE @,
                       !.last_cov_check = t]
    ELSE l

\* The instrumentation mode of utils/config.py DEFAULTS.
DefaultInstrMode == "shm_py"

\* The runs the loop's target can have: the child never starts, exits with
\* 0, exits with 1, or is killed after the timeout; the bitmap it leaves
\* has hit counts of 1 on a first stretch of the map.
LoopEnvs ==
    {e \in Envs(DefaultInstrMode, {1000}) :
        /\ e.rc \in {0, 1, -9}
        /\ e.ms = 0
        /\ e.write_ok
        /\ \A i \in 1 .. MAP_SIZE : e.bitmap[i] \in {0, 1}
        /\ \A i \in 2 .. MAP_SIZE : e.bitmap[i] <= e.bitmap[i - 1]}

(***************************************************************************)
(* SpecLoop: main()'s scheduler, monitor and target, and fuzz_loop on      *)
(* them, one action per position of the loop.                              *)
(***************************************************************************)
\* time.time() when fuzz_loop starts, the --time of the run, the runs and
\* the selections of one behaviour; run.runs and run.hangs count the calls
\* of target.run and those of them that returned hang
Epoch == 100
RuntimeSeconds == 20
MaxExec == 2
MaxLoopSelect == 2

RECURSIVE AddSeeds(_, _)
AddSeeds(s, seeds) ==
    IF seeds = <<>> THEN s
    ELSE AddSeeds(add_seed(s, Head(seeds), 1).s, Tail(seeds))

SeedDirs == {<<>>, << <<88>> >>}

\* --target and --mode of the command line
LoopConfigs ==
    {<<(<< <<"target">> >>), "stdin">>,
     <<(<< <<"target">>, <<"--in=", "@@">> >>), "file">>}

InitLoop ==
    /\ \E seeds \in SeedDirs : sched = AddSeeds(SchedulerInit(Epoch), seeds)
    /\ schedCall = SchedCallInit
    /\ monitor = MonitorInit
    /\ monCall = [op |-> "init", cov |-> None]
    /\ now = Epoch
    /\ \E cfg \in LoopConfigs :
        /\ run = [pc |-> "ready", self |-> CommandTarget(cfg[1], None),
                  instr_mode |-> DefaultInstrMode, runs |-> 0, hangs |-> 0,
                  names |-> 0, clock |-> 0, shm_live |-> 0, call |-> RunCallInit]
        /\ loop = [pc |-> "select", mode |-> cfg[2],
                  end_ts |-> Epoch + RuntimeSeconds,
                  cand |-> None, attempts |-> 0, attempt |-> 0, count_v |-> 0,
                  variant |-> <<>>, res |-> RunCallInit.result,
                  record_raised |-> FALSE,
                  last_cov_check |-> Epoch, prefer_basic |-> FALSE,
                  agg |-> AggressionManager, prev_aggressive |-> FALSE,
                  havoc |-> HavocMutator(havoc_rounds, havoc_max_changes),
                  splice |-> SpliceMutator]
    /\ fs = <<>>
    /\ CovIdle

\* Lines 151-154: the time limit.
LoopTimeUp ==
    /\ loop.pc = "select"
    /\ now >= loop.end_ts
    /\ loop' = [loop EXCEPT !.pc = "done"]
    /\ UNCHANGED <<covA, covB, covCall, monitor, monCall, sched, schedCall, now, run, fs>>

\* Lines 155-222: a candidate, the growth check, the attempts.
LoopSelect ==
    /\ loop.pc = "select"
    /\ now < loop.end_ts
    /\ sched.select_count < MaxLoopSelect
    /\ \E explore \in (IF random_is_bound(201) THEN BOOLEAN ELSE {FALSE}),
          favored \in (IF random_is_bound(231) THEN BOOLEAN ELSE {FALSE}),
          jit \in (IF Cardinality(CorpusIds(sched)) > 2 THEN JitterPercents ELSE {0}),
          perm \in (IF random_is_bound(120)
                       /\ (sched.select_count + 1) % shuffle_interval = 0
                    THEN Perms(sched.queue) ELSE {sched.queue}) :
        LET rnd0 == [perm |-> perm, explore |-> explore, favored |-> favored,
                     jit |-> jit, pick |-> 0]
        IN  \E pick \in Picks(sched, now, rnd0) :
                \E r \in {next_candidate(sched, now, [rnd0 EXCEPT !.pick = pick])},
                   l1 \in {growth_check(loop, monitor, now)} :
                    /\ sched' = r.s
                    /\ loop' = IF r.ret = None THEN loop
                               ELSE [l1 EXCEPT
                                       !.pc = "attempt",
                                       !.cand = r.ret,
                                       !.attempts =
                                           Max(1, Min(max_attempts,
                                                      r.s.corpus[r.ret[1]].energy)),
                                       !.attempt = 0]
    /\ UNCHANGED <<covA, covB, covCall, monitor, monCall, schedCall, now, run, fs>>

\* Lines 224-267: the next attempt makes a generator of variants; after the
\* last one the loop sleeps and selects again (line 308).
LoopAttempt ==
    /\ loop.pc = "attempt"
    /\ loop' = IF loop.attempt < loop.attempts
               THEN [loop EXCEPT !.pc = "variant", !.count_v = 0]
               ELSE [loop EXCEPT !.pc = "select"]
    /\ UNCHANGED <<covA, covB, covCall, monitor, monCall, sched, schedCall, now, run, fs>>

\* Lines 271-275 and 303-304: the generator is exhausted, or the time is up.
after_variants(l, t) ==
    IF t >= l.end_ts THEN [l EXCEPT !.pc = "select"]
    ELSE [l EXCEPT !.pc = "attempt", !.attempt = @ + 1]

LoopGenEnd ==
    /\ loop.pc = "variant"
    /\ loop' = after_variants(loop, now)
    /\ UNCHANGED <<covA, covB, covCall, monitor, monCall, sched, schedCall, now, run, fs>>

\* Lines 276-279: target.run on the next variant.
LoopRun ==
    /\ loop.pc = "variant"
    /\ now < loop.end_ts
    /\ run.runs < MaxExec
    /\ \E variant \in Samples, env \in LoopEnvs :
        \E r \in {CommandTarget_run(fs, run.names, run.clock, run.self,
                                    run.instr_mode, variant, loop.mode, env)} :
            /\ fs' = r.fs
            /\ run' = [run EXCEPT !.runs = @ + 1,
                                  !.hangs = IF r.result.status = "hang"
                                            THEN @ + 1 ELSE @,
                                  !.names = r.info.names,
                                  !.clock = r.clock,
                                  !.shm_live = @ + r.info.created - r.info.removed]
            /\ loop' = [loop EXCEPT !.pc = "record", !.variant = variant,
                                    !.res = r.result]
    /\ UNCHANGED <<covA, covB, covCall, monitor, monCall, sched, schedCall, now>>

\* Lines 283-292: monitor.record_run, exceptions swallowed.
LoopRecord ==
    /\ loop.pc = "record"
    /\ LET c == call_record_run(monitor, RecordRunKeywords, now, loop.cand,
                                loop.variant, loop.res)
       IN  /\ monitor' = c.m
           /\ loop' = [loop EXCEPT !.pc = "report", !.record_raised = c.raised]
    /\ UNCHANGED <<covA, covB, covCall, monCall, sched, schedCall, now, run, fs>>

\* Lines 294-301: scheduler.report_result, then the variant count.
LoopReport ==
    /\ loop.pc = "report"
    /\ \E rnd \in ReportDraws(sched, loop.res) :
        /\ sched' = report_result(sched, now, loop.variant, loop.res, rnd).s
        /\ loop' = IF loop.count_v + 1 >= max_variants
                   THEN after_variants([loop EXCEPT !.count_v = @ + 1], now)
                   ELSE [loop EXCEPT !.pc = "variant", !.count_v = @ + 1]
    /\ UNCHANGED <<covA, covB, covCall, monitor, monCall, schedCall, now, run, fs>>

\* time passes: the loop sleeps before it selects, a run takes its time
LoopTick ==
    /\ loop.pc \in {"select", "variant"}
    /\ now < loop.end_ts
    /\ now' = now + TickSeconds
    /\ UNCHANGED <<covA, covB, covCall, monitor, monCall, sched, schedCall, run, fs, loop>>

NextLoop ==
    \/ LoopTimeUp
    \/ LoopSelect
    \/ LoopAttempt
    \/ LoopGenEnd
    \/ LoopRun
    \/ LoopRecord
    \/ LoopReport
    \/ LoopTick

SpecLoop == InitLoop /\ [][NextLoop]_vars

\* C8: in fuzz_loop every variant target.run executed has exactly one
\* record in monitor.records once record_run has been called for it, so the
\* journal holds as many records as variants were executed whenever
\* report_result is about to be called or has been called.
C8_OneRecordPerRun ==
    loop.pc \in {"select", "attempt", "variant", "report", "done"}
        => Len(monitor.records) = run.runs

\* C9: a run classified as crash whose artifact could be written returns an
\* artifact_path naming a file that exists after the return and holds the
\* bytes of the variant, with a caller's workdir and with the default
\* temporary directory.
C9_CrashArtifactExists ==
    (/\ run.pc = "returned"
     /\ run.call.result.status = "crash"
     /\ run.call.write_ok)
        => /\ run.call.result.artifact_path # None
           /\ Exists(fs, run.call.result.artifact_path)
           /\ fs[run.call.result.artifact_path] = run.call.input

\* C10: in both instrumentation modes a run whose child could not be
\* started is an error, a run that timed out is a hang whatever the exit
\* code, otherwise a null exit code is an error, an exit code other than 0 a
\* crash and an exit code of 0 ok; the exit code is the child's.
C10_Classification ==
    run.pc = "returned" =>
        LET c   == run.call
            res == c.result
        IN  IF ~c.shm_ok \/ ~c.launch_ok
            THEN res.status = "error" /\ res.exit_code = None
            ELSE /\ res.exit_code = Some(c.rc)
                 /\ res.timed_out = c.env_timed_out
                 /\ res.status = (IF c.env_timed_out THEN "hang"
                                  ELSE IF res.exit_code = None THEN "error"
                                  ELSE IF c.rc # 0 THEN "crash"
                                  ELSE "ok")

\* a timed-out run whose child left a non-zero exit code, in shm_py mode
C10_Witness ==
    /\ run.pc = "returned"
    /\ run.instr_mode = "shm_py"
    /\ run.call.env_timed_out
    /\ run.call.result.exit_code = Some(-15)
    /\ run.call.result.status = "hang"

\* C11: a run_target_with_shm call that could allocate its region creates
\* exactly one region and has marked it for removal when it returns or
\* raises, so no region outlives its run.
C11_RegionRemoved ==
    (/\ run.pc = "returned"
     /\ run.instr_mode = "shm_py"
     /\ run.call.shm_ok)
        => /\ run.call.info.created = 1
           /\ run.call.info.removed = 1
           /\ run.shm_live = 0

\* C12: right after a next_candidate call that was a maintenance tick (its
\* selection count is a multiple of shuffle_interval) the favored set holds
\* at most favored_capacity ids.
C12_FavoredWithinCapacity ==
    (/\ schedCall.op = "next_candidate"
     /\ schedCall.ret # None
     /\ sched.select_count % shuffle_interval = 0)
        => Cardinality(FavoredIds(sched)) <= favored_capacity

(***************************************************************************)
(* SpecAgg: an AggressionManager under any sequence of update calls while  *)
(* time passes.  `loop` holds the manager and the last call's argument.    *)
(***************************************************************************)
MaxAggTicks == 9

InitAgg ==
    /\ loop = [pc |-> "aggression", agg |-> AggressionManager, slow |-> FALSE]
    /\ now = Epoch
    /\ fs = <<>>
    /\ run = [pc |-> "idle"]
    /\ CovIdle /\ MonIdle /\ SchedIdle

aggOther == <<covA, covB, covCall, monitor, monCall, sched, schedCall, run, fs>>

AggUpdate ==
    \E slow \in BOOLEAN :
        /\ loop' = [loop EXCEPT !.agg = aggression_update(loop.agg, now, slow),
                                !.slow = slow]
        /\ UNCHANGED <<now, aggOther>>

AggTick ==
    /\ now < Epoch + MaxAggTicks * TickSeconds
    /\ now' = now + TickSeconds
    /\ UNCHANGED <<loop, aggOther>>

NextAgg == AggUpdate \/ AggTick

SpecAgg == InitAgg /\ [][NextAgg]_vars

\* C13: the aggressive flag goes from false to true only in an update(true)
\* at least cooldown after the last exit, and the entry time is recorded;
\* it goes from true to false only in an update(false) at least
\* min_duration after the entry, and the exit time is recorded; so once
\* entered it stays aggressive for min_duration whatever updates arrive.
C13_Hysteresis ==
    [][LET a == loop.agg
           b == loop'.agg
       IN  /\ (~a.aggressive /\ b.aggressive) =>
                 /\ loop'.slow
                 /\ now - a.last_exit >= AGGRESSION_COOLDOWN
                 /\ b.last_enter = now
                 /\ b.scale = AGGRESSION_SCALE
           /\ (a.aggressive /\ ~b.aggressive) =>
                 /\ ~loop'.slow
                 /\ now - a.last_enter >= AGGRESSION_MIN_DURATION
                 /\ b.last_exit = now
                 /\ b.scale = 1
           /\ (a.aggressive /\ now' - a.last_enter < AGGRESSION_MIN_DURATION)
                 => b.aggressive
           /\ (a.aggressive = b.aggressive) => b = a]_vars

\* the manager is aggressive for the second time: it entered, left after
\* min_duration and entered again after the cooldown
C13_Witness ==
    /\ loop.pc = "aggression"
    /\ loop.agg.aggressive
    /\ loop.agg.last_exit >= Epoch + AGGRESSION_MIN_DURATION
    /\ loop.agg.last_enter >= loop.agg.last_exit + AGGRESSION_COOLDOWN


\* C14: in fuzz_loop with a non-empty corpus and runs that never change the
\* cumulative coverage, the step that makes the first stagnation check,
\* ten seconds after the start and after runs have been made, leaves the
\* aggression manager aggressive and the HavocMutator's rounds and
\* max_changes strictly greater than they were before the step.
C14_AggressiveAfterCheck ==
    [][(/\ loop.pc = "select"
        /\ loop.last_cov_check = Epoch
        /\ loop'.last_cov_check >= Epoch + loop_cov_check_interval
        /\ run.runs >= 1
        /\ CorpusIds(sched) # {}
        /\ points(sched.cumulative_cov) = {})
           => /\ loop'.agg.aggressive
              /\ loop'.havoc.rounds > loop.havoc.rounds
              /\ loop'.havoc.max_changes > loop.havoc.max_changes]_vars


(***************************************************************************)
(* SpecHavoc: a HavocMutator under any sequence of apply_aggression and    *)
(* clear_aggression calls.  `loop` holds the mutator, the arguments it was *)
(* constructed with and the scales passed so far.                          *)
(***************************************************************************)
MaxHavocCalls == 3
HavocRounds == {1, 3, havoc_rounds}
HavocMaxChanges == {1, havoc_max_changes}
\* 0.5, 1.0, 1.5, 2.0 and 3.0
Scales == {5, 10, 15, 20, 30}

InitHavoc ==
    /\ \E rounds \in HavocRounds, max_changes \in HavocMaxChanges :
        loop = [pc |-> "havoc", havoc |-> HavocMutator(rounds, max_changes),
                built |-> [rounds |-> rounds, max_changes |-> max_changes],
                op |-> "init", scales |-> <<>>, calls |-> 0]
    /\ now = Epoch
    /\ fs = <<>>
    /\ run = [pc |-> "idle"]
    /\ CovIdle /\ MonIdle /\ SchedIdle

HavocApply ==
    /\ loop.calls < MaxHavocCalls
    /\ \E scale \in Scales :
        loop' = [loop EXCEPT !.havoc = havoc_apply_aggression(@, scale),
                             !.op = "apply_aggression",
                             !.scales = Append(@, scale),
                             !.calls = @ + 1]
    /\ UNCHANGED <<now, aggOther>>

HavocClear ==
    /\ loop.calls < MaxHavocCalls
    /\ loop' = [loop EXCEPT !.havoc = havoc_clear_aggression(@),
                            !.op = "clear_aggression",
                            !.calls = @ + 1]
    /\ UNCHANGED <<now, aggOther>>

NextHavoc == HavocApply \/ HavocClear

SpecHavoc == InitHavoc /\ [][NextHavoc]_vars

\* C15: after any apply_aggression calls with any scales, clear_aggression
\* leaves rounds, max_changes and op_weights at the values of construction;
\* after apply_aggression they are the values of construction scaled by the
\* last scale (at least 1.0) alone, whatever was applied before.
C15_RestoreAndNoCompounding ==
    LET h == loop.havoc
        b == loop.built
    IN  /\ loop.op = "clear_aggression" =>
              /\ h.rounds = b.rounds
              /\ h.max_changes = b.max_changes
              /\ h.op_weights = DefaultOpWeights
        /\ loop.op = "apply_aggression" =>
              LET s == Max(10, loop.scales[Len(loop.scales)])
              IN  /\ h.rounds = Max(1, (b.rounds * s) \div 10)
                  /\ h.max_changes = Max(1, (b.max_changes * s) \div 10)
                  /\ \A op \in HavocOps :
                        h.op_weights[op] =
                            Max(1, (DefaultOpWeights[op]
                                      * (100 + (s - 10)
                                           * (IF op \in DestructiveOps THEN 12 ELSE 6)))
                                   \div 100)

\* clear_aggression after two apply_aggression calls with different scales
\* above 1.0 on a mutator made with the default arguments
C15_Witness ==
    /\ loop.pc = "havoc"
    /\ loop.op = "clear_aggression"
    /\ Len(loop.scales) >= 2
    /\ loop.scales[1] > 10
    /\ loop.scales[2] > loop.scales[1]
    /\ loop.built.rounds = havoc_rounds
    /\ loop.havoc.rounds = havoc_rounds


(***************************************************************************)
(* SpecLoopFair: fuzz_loop with its scheduling.  The loop takes its next   *)
(* step whenever it has one, and the clock advances: every pass of the     *)
(* outer loop sleeps (fuzzer.py lines 157 and 308) and every run of the    *)
(* target takes time, at most its timeout.                                 *)
(***************************************************************************)
SpecLoopFair == SpecLoop /\ WF_vars(NextLoop) /\ SF_vars(LoopTick)

\* core/eval.py coverage_curve
coverage_curve(m) ==
    [k \in 1 .. Len(m.records) |->
        <<m.records[k].timestamp - m.records[1].timestamp,
          m.records[k].cum_coverage>>]

\* C16: fuzz_loop leaves its loop once the deadline is reached, whatever the
\* corpus and the target do; with an empty corpus the journal and the
\* coverage curve are empty at the exit; with a target that hung on every
\* run the journal holds one record per run at the exit, each with status
\* hang and no artifact, and no artifact file was written.
C16_TerminatesAtDeadline ==
    /\ <>(loop.pc = "done")
    /\ [](loop.pc = "done" =>
            /\ now >= loop.end_ts
            /\ CorpusIds(sched) = {} =>
                  /\ monitor.records = <<>>
                  /\ coverage_curve(monitor) = <<>>
            /\ (run.runs >= 1 /\ run.hangs = run.runs) =>
                  /\ Len(monitor.records) = run.runs
                  /\ \A k \in 1 .. Len(monitor.records) :
                        /\ monitor.records[k].status = "hang"
                        /\ monitor.records[k].artifact_path = None
                  /\ \A p \in DOMAIN fs : \A i \in 1 .. Len(p) : p[i] # "artifacts")


\* C17: whatever bytes the child left in the bitmap, when the bitmap was
\* read and written to the map file the coverage parse_afl_map makes of
\* the file has as hit set the indices of the nonzero bytes of the bitmap.
C17_MapRoundTrip ==
    (/\ run.pc = "returned"
     /\ run.instr_mode = "shm_py"
     /\ run.call.shm_ok /\ run.call.launch_ok /\ run.call.read_ok)
        => /\ run.call.result.coverage # None
           /\ points(run.call.result.coverage)
                = {i \in 0 .. MAP_SIZE - 1 : run.call.bitmap[i + 1] # 0}


\* C18: after any add_seed (default energy), next_candidate and
\* report_result calls every candidate of the corpus has an energy in
\* 1 .. 20.
C18_EnergyInRange ==
    \A cid \in CorpusIds(sched) :
        /\ sched.corpus[cid].energy \in Int
        /\ sched.corpus[cid].energy >= 1
        /\ sched.corpus[cid].energy <= max_energy_cap

\* a report matched a candidate, whose recomputed energy was capped, while
\* the seed still has the default energy
C18_Witness ==
    /\ schedCall.op = "report_result"
    /\ \E cid \in CorpusIds(sched) :
        /\ sched.corpus[cid].hits >= 1
        /\ sched.corpus[cid].energy = max_energy_cap
    /\ \E cid \in CorpusIds(sched) : sched.corpus[cid].energy = 1
    /\ sched.select_count >= 1


\* C19: in file mode and in every instrumentation mode, the argv the child
\* is started with is the command line with every "@@" replaced by the path
\* of the temporary input file and nothing appended when some token holds
\* "@@", and the command line followed by that one path otherwise; the file
\* at the path holds the input bytes.
C19_FileModeArgv ==
    (/\ run.pc = "returned"
     /\ run.call.mode = "file"
     /\ run.call.info.argv # <<>>)
        => LET cmd  == run.self.cmd
               path == run.call.info.input_path
           IN  /\ path # None
               /\ run.call.info.argv =
                    (IF \E i \in 1 .. Len(cmd) : HasPlaceholder(cmd[i])
                     THEN [i \in 1 .. Len(cmd) |-> ReplacePlaceholder(cmd[i], path)]
                     ELSE cmd \o <<path>>)
               /\ run.self.workdir # None =>
                    /\ Exists(fs, path)
                    /\ fs[path] = run.call.input


(***************************************************************************)
(* SpecTwice: a scheduler holding one seed, and one run result reported    *)
(* twice back-to-back.  schedCall holds the sample and the result of the   *)
(* first report and the corpus size it left.                               *)
(***************************************************************************)
InitTwice ==
    /\ \E seed \in Samples : sched = add_seed(SchedulerInit(0), seed, 1).s
    /\ schedCall = [op |-> "add_seed", sample |-> <<>>,
                    result |-> Result("ok", 0, None, None), size |-> 1, ret |-> None]
    /\ now = 0
    /\ CovIdle /\ MonIdle /\ RunIdle /\ LoopIdle

TwiceFirst ==
    /\ schedCall.op = "add_seed"
    /\ \E sample \in Samples, status \in Statuses, wt \in WallTimes, cov \in Coverages :
        \E rnd \in ReportDraws(sched, Result(status, wt, cov, None)) :
            \E r \in {report_result(sched, now, sample, Result(status, wt, cov, None), rnd)} :
                /\ sched' = r.s
                /\ schedCall' = [op |-> "first_report", sample |-> sample,
                                 result |-> Result(status, wt, cov, None),
                                 size |-> Cardinality(CorpusIds(r.s)), ret |-> r.ret]
    /\ UNCHANGED <<now, schedOther>>

\* the same sample run again: the same status and coverage
TwiceSecond ==
    /\ schedCall.op = "first_report"
    /\ \E wt \in WallTimes :
        LET result == [schedCall.result EXCEPT !.wall_time = wt]
        IN  \E rnd \in ReportDraws(sched, result) :
                \E r \in {report_result(sched, now, schedCall.sample, result, rnd)} :
                    /\ sched' = r.s
                    /\ schedCall' = [schedCall EXCEPT !.op = "second_report",
                                                      !.result = result,
                                                      !.ret = r.ret]
    /\ UNCHANGED <<now, schedOther>>

NextTwice == TwiceFirst \/ TwiceSecond

SpecTwice == InitTwice /\ [][NextTwice]_vars

\* C20: from a corpus of one seed, after the same sample was reported twice
\* with the same coverage, the corpus has the size the first report left and
\* the seed, candidate 1, has hits >= 2.
C20_SecondReportIsDuplicate ==
    schedCall.op = "second_report" =>
        /\ Cardinality(CorpusIds(sched)) = schedCall.size
        /\ sched.corpus[1].hits >= 2


\* C21: when the result of a run carries no coverage (None, or a bitmap
\* without a hit), the run has its record in the journal when it is
\* reported, and report_result leaves the corpus as it was.
C21_NoCoverageNotAdmitted ==
    [][(/\ loop.pc = "report"
        /\ loop'.pc # "report"
        /\ (loop.res.coverage = None \/ len(loop.res.coverage) = 0))
           => /\ Len(monitor.records) = run.runs
              /\ CorpusIds(sched') = CorpusIds(sched)]_vars


\* C22: a run whose allocation of the shared-memory region failed is
\* reported with status error only after the allocation was tried a second
\* time: shmget was called twice in it.
C22_AllocationRetried ==
    (/\ run.pc = "returned"
     /\ run.instr_mode = "shm_py"
     /\ ~run.call.shm_ok)
        => /\ run.call.result.status = "error"
           /\ run.call.info.shmget_calls = 2


(***************************************************************************)
(* SpecRematch: a scheduler holding one seed, a run result reported, and   *)
(* the same coverage reported again with any status.  The coverage may be  *)
(* a CoverageData wider than the scheduler's cumulative bitmap, whose      *)
(* merge stops at the smaller size, so that its upper hits stay new.       *)
(***************************************************************************)
WideCoverages == Coverages \cup AllCoverage(BITMAP_SIZE + 1)

RematchFirst ==
    /\ schedCall.op = "add_seed"
    /\ \E sample \in Samples, status \in Statuses, wt \in WallTimes, cov \in WideCoverages :
        \E rnd \in ReportDraws(sched, Result(status, wt, cov, None)) :
            \E r \in {report_result(sched, now, sample, Result(status, wt, cov, None), rnd)} :
                /\ sched' = r.s
                /\ schedCall' = [op |-> "first_report", sample |-> sample,
                                 result |-> Result(status, wt, cov, None),
                                 size |-> Cardinality(CorpusIds(r.s)), ret |-> r.ret]
    /\ UNCHANGED <<now, schedOther>>

RematchSecond ==
    /\ schedCall.op = "first_report"
    /\ \E status \in Statuses, wt \in WallTimes :
        LET result == [schedCall.result EXCEPT !.status = status, !.wall_time = wt]
        IN  \E rnd \in ReportDraws(sched, result) :
                \E r \in {report_result(sched, now, schedCall.sample, result, rnd)} :
                    /\ sched' = r.s
                    /\ schedCall' = [schedCall EXCEPT !.op = "second_report",
                                                      !.result = result,
                                                      !.ret = r.ret]
    /\ UNCHANGED <<now, schedOther>>

NextRematch == RematchFirst \/ RematchSecond

SpecRematch == InitTwice /\ [][NextRematch]_vars

C25_FavoredLeaves ==
    [][/\ \A f \in FavoredIds(sched) \ FavoredIds(sched') :
            \/ /\ sched'.select_count = sched.select_count + 1
               /\ sched'.select_count % shuffle_interval = 0
            \/ /\ sched'.select_count = sched.select_count + 1
               /\ schedCall'.ret = Some(f)
               /\ sched'.corpus[f].cycles > FAVORED_MAX_CYCLES
       /\ \A f \in FavoredIds(sched) :
            (/\ sched'.select_count = sched.select_count + 1
             /\ schedCall'.ret = Some(f)
             /\ sched'.corpus[f].cycles > FAVORED_MAX_CYCLES)
                => f \notin FavoredIds(sched')]_vars


(***************************************************************************)
(* SpecStag: a scheduler that was constructed cov_check_interval seconds   *)
(* ago and holds three equal seeds, so that every next_candidate call goes *)
(* through the stagnation check of lines 175-197; next_candidate and       *)
(* report_result calls follow, with the clock advancing between them.      *)
(***************************************************************************)
InitStag ==
    /\ \E seed \in {<<88>>} :
          sched = add_seed(add_seed(add_seed(
                      SchedulerInit(0 - cov_check_interval), seed, 1).s, seed, 1).s, seed, 1).s
    /\ schedCall = [SchedCallInit EXCEPT !.op = "add_seed", !.ret = Some(3)]
    /\ now = 0
    /\ CovIdle /\ MonIdle /\ RunIdle /\ LoopIdle

NextStag ==
    \/ SchedNextCandidate
    \/ SchedReportResult
    \/ SchedTick

SpecStag == InitStag /\ [][NextStag]_vars

\* C26: a next_candidate call that runs the stagnation check leaves
\* explore fraction 0.30 and pool size 32 when the cumulative coverage grew
\* by at most 1% since the last check, and the default fraction 0.15 and
\* the default pool size 8 when it grew more; after any call a scheduler
\* with the default fraction has pool size 8.
C26_StagnationParameters ==
    [][(sched'.select_count = sched.select_count + 1) =>
          /\ (now - sched.last_cov_check >= cov_check_interval) =>
                LET cur  == Cardinality(points(sched.cumulative_cov))
                    prev == Max(1, sched.last_cov_points)
                IN  IF (cur - sched.last_cov_points) * 100 <= prev
                    THEN /\ sched'.explore_fraction = explore_stagnant
                         /\ sched'.explore_pool_size = explore_pool_size_stagnant
                    ELSE /\ sched'.explore_fraction = explore_default
                         /\ sched'.explore_pool_size = explore_pool_default
          /\ (sched'.explore_fraction = explore_default)
                => sched'.explore_pool_size = explore_pool_default]_vars


\* C27: a run whose child timed out has signalled the child's whole process
\* group, in every instrumentation mode: TERM first, and KILL after it only
\* when the child did not exit within the 0.5 s wait; and the run has
\* returned with timed_out set.
C27_TimeoutSignalsGroup ==
    (/\ run.pc = "returned" /\ run.call.env_timed_out)
        => /\ run.call.result.timed_out
           /\ run.call.info.signals \in
                 {<<"killpg_TERM">>, <<"killpg_TERM", "killpg_KILL">>}


(***************************************************************************)
(* lua_mutator.py, mjs_mutator.py: the repair and the check applied to     *)
(* every mutated text before it is emitted.  A text is a tuple of          *)
(* one-character strings.                                                  *)
(***************************************************************************)
MaxTextLen == 3
\* the texts a strategy can hand to the repair: the base mutators edit
\* bytes at random, so any text over the characters can come out
Texts == UNION {[1..n -> {"(", ")", "'", "\\"}] : n \in 0..MaxTextLen}

\* s.count(ch)
str_count(s, ch) == Cardinality({i \in DOMAIN s : s[i] = ch})

\* the occurrences of q preceded by an even number of backslashes
count_unescaped(s, q) ==
    Cardinality({i \in DOMAIN s :
        /\ s[i] = q
        /\ Cardinality({j \in 1..(i - 1) : \A k \in j..(i - 1) : s[k] = "\\"}) % 2 = 0})

\* _fix_brackets_and_quotes: append the missing closers of each bracket
\* pair in turn, then one quote of each kind in quotes whose unescaped count
\* is odd (quotes is <<"'", "\"">> in lua_mutator.py; mjs_mutator.py has the
\* double quote, the single quote and the backtick, written "BACKTICK").
fix_brackets_and_quotes(s, quotes) ==
    LET close(t, o, c) ==
            IF str_count(t, o) > str_count(t, c)
            THEN t \o [i \in 1..(str_count(t, o) - str_count(t, c)) |-> c]
            ELSE t
        quote(t, k) ==
            IF k <= Len(quotes) /\ count_unescaped(t, quotes[k]) % 2 = 1
            THEN Append(t, quotes[k]) ELSE t
    IN  quote(quote(quote(close(close(close(s, "(", ")"), "[", "]"), "{", "}"),
                          1), 2), 3)

\* MjsMutator._basic_balance_check
basic_balance_check(s) ==
    /\ \A p \in {<<"(", ")">>, <<"[", "]">>, <<"{", "}">>} :
            str_count(s, p[1]) = str_count(s, p[2])
    /\ \A q \in {"\"", "'", "BACKTICK"} : count_unescaped(s, q) % 2 = 0

(***************************************************************************)
(* SpecText: LuaMutator.mutate and MjsMutator.mutate emitting one variant  *)
(* each step.  body is the mutated text a strategy produced, out the       *)
(* variant that is yielded (None when it is dropped).                      *)
(***************************************************************************)
InitText ==
    /\ loop = [pc |-> "text", op |-> "init", body |-> <<>>, out |-> None]
    /\ now = Epoch
    /\ fs = <<>>
    /\ run = [pc |-> "idle"]
    /\ CovIdle /\ MonIdle /\ SchedIdle

\* Lines 141-208 of lua_mutator.py: every strategy yields
\* prefix + _fix_brackets_and_quotes(mutated body); prefix is the protected
\* first line of the input.
LuaMutate ==
    /\ \E prefix \in {<<>>} \cup {<<c, "\n">> : c \in {"(", ")", "'"}}, body \in Texts :
        loop' = [loop EXCEPT !.op = "lua", !.body = body,
                    !.out = Some(prefix \o fix_brackets_and_quotes(body, <<"'", "\"">>))]
    /\ UNCHANGED <<now, aggOther>>

\* Lines 167-297 of mjs_mutator.py: every strategy repairs the mutated text
\* and yields it only when _basic_balance_check accepts it.
MjsMutate ==
    /\ \E body \in Texts :
        \E cand \in {fix_brackets_and_quotes(body, <<"\"", "'", "BACKTICK">>)} :
            loop' = [loop EXCEPT !.op = "mjs", !.body = body,
                        !.out = IF basic_balance_check(cand) THEN Some(cand) ELSE None]
    /\ UNCHANGED <<now, aggOther>>

NextText == LuaMutate \/ MjsMutate

SpecText == InitText /\ [][NextText]_vars

\* C28: every variant emitted by the Lua or the MJS mutator has as many
\* "(" as ")", "[" as "]", "{" as "}" and an even number of unescaped
\* quotes of each kind.
C28_EmittedBalanced ==
    (loop.op \in {"lua", "mjs"} /\ loop.out # None) =>
        /\ str_count(loop.out[1], "(") = str_count(loop.out[1], ")")
        /\ str_count(loop.out[1], "[") = str_count(loop.out[1], "]")
        /\ str_count(loop.out[1], "{") = str_count(loop.out[1], "}")
        /\ count_unescaped(loop.out[1], "'") % 2 = 0
        /\ count_unescaped(loop.out[1], "\"") % 2 = 0


\* C29: every record_run call leaves the cached size _cum_cov_size, which
\* it writes to the new record's cum_coverage, equal to the number of hit
\* bytes of cumulative_cov, and gives the new record as novelty the number
\* of indices the call set in cumulative_cov.
C29_CachedSizeIsActual ==
    [][(Len(monitor'.records) = Len(monitor.records) + 1) =>
          LET rec == monitor'.records[Len(monitor'.records)]
          IN  /\ monitor'.cum_cov_size = Cardinality(points(monitor'.cumulative_cov))
              /\ rec.cum_coverage = Cardinality(points(monitor'.cumulative_cov))
              /\ rec.novelty = Cardinality(points(monitor'.cumulative_cov)
                                              \ points(monitor.cumulative_cov))]_vars

\* a second record_run whose coverage has one old and one new hit
C29_Witness ==
    /\ monCall.op = "record_run"
    /\ Len(monitor.records) >= 2
    /\ monCall.cov # None
    /\ Cardinality(points(monCall.cov)) = 2
    /\ monitor.records[Len(monitor.records)].novelty = 1
    /\ monitor.records[Len(monitor.records)].cum_coverage = 2


\* C30: the queue holds every corpus id exactly once, the candidate ids are
\* 1, 2, ... in the order of their creation with each candidate stored under
\* its own id, and every favored id is the id of a corpus candidate.
C30_QueueCorpusFavored ==
    /\ Len(sched.queue) = Cardinality(CorpusIds(sched))
    /\ {sched.queue[i] : i \in DOMAIN sched.queue} = CorpusIds(sched)
    /\ CorpusIds(sched) = 1..(sched.next_id - 1)
    /\ \A c \in CorpusIds(sched) : sched.corpus[c].id = c
    /\ FavoredIds(sched) \subseteq CorpusIds(sched)

\* three candidates, a favored one among them, after a weighted selection
\* that moved an id to the end of the queue
C30_Witness ==
    /\ schedCall.op = "next_candidate"
    /\ Cardinality(CorpusIds(sched)) = 3
    /\ FavoredIds(sched) # {}
    /\ sched.select_count >= 1
    /\ sched.queue # <<1, 2, 3>>

====
